---- MODULE Spec2Model ----
(***************************************************************************)
(* A model of goDirHasher (cmd/goDirHasher/main.go, pkg/hasher/hasher.go): *)
(* the normalisation of -workers, the check-mode path resolution, and the  *)
(* bounded fan-out / aggregation of check mode and calculate mode.         *)
(*                                                                         *)
(* Strings are sequences of one-character strings, so that the string      *)
(* functions of the code (ToUpper, Clean, Join, Dir) are computed and not  *)
(* assumed.                                                                *)
(***************************************************************************)
EXTENDS Integers, Sequences, FiniteSets, TLC

VARIABLES
    workersFlag,    \* the value given to -workers (flag.IntVar), kept for reference
    maxWorkers,     \* main.go:61 maxWorkers
    checkMode,      \* main.go:57 *checkMode
    tasks,          \* entries (check mode) / filesToProcess (calculate mode)
    mainPC,         \* the position of main()
    unitPC,         \* the position of each per-task goroutine
    ret,            \* what GetSHA256 returned to each goroutine
    semaphore,      \* number of tokens in the semaphore channel
    resultChan,     \* checkResultChan / calcResultChan: the buffered outcomes
    chanClosed,     \* whether the result channel has been closed
    wg,             \* the sync.WaitGroup counter
    closerPC,       \* the position of the goroutine that waits and closes
    numValidHash,   \* main.go:196
    numInvalidHash, \* main.go:197
    hasFailure,     \* main.go:198
    errorCount,     \* main.go:326
    written,        \* per task: manifest lines written by calculate mode
    printed,        \* per task: messages printed by the aggregator
    emitted,        \* per task: outcomes sent on the result channel
    consumed,       \* outcomes received by the aggregator loop
    summaryPrinted, \* whether the summary line has been printed
    exitCode,       \* process exit status, -1 while the process runs
    panicked,       \* a goroutine panicked (send on a closed channel)
    hashFilePath,   \* main.go:96 hashFilePath
    entryPath,      \* entry.FilePath of the entry being resolved
    fullPath,       \* main.go:165 fullPath
    pathPC,         \* the position of the path resolution
    args,           \* main.go:88 args
    hashFileReader, \* main.go:95 hashFileReader: what the manifest is read from
    srcPC,          \* the position of the choice of the manifest source
    input,          \* the bytes of the stream given to ParseHashFile
    scanned,        \* how much of the stream the scanner has consumed
    entries,        \* hasher.go:89 entries
    parseErr,       \* whether ParseHashFile returns an error
    parsePC,        \* the position of ParseHashFile
    outcomes,       \* the successful outcomes calculate mode has to write
    wrote,          \* outcomes written to the output so far
    warned,         \* "Skipping malformed line" warnings logged so far
    hstate,         \* per hash-state: the bytes written since New or Reset
    hwhere,         \* per hash-state: not allocated, in the pool, or its holder
    bwhere,         \* per I/O buffer: not allocated, in the pool, or its holder
    call,           \* per caller: its GetSHA256 call in progress
    calls,          \* GetSHA256 calls started
    skipped         \* arguments skipped by calculate mode (os.Stat failed)

vars == <<workersFlag, maxWorkers, checkMode, tasks, mainPC, unitPC, ret,
          semaphore, resultChan, chanClosed, wg, closerPC, numValidHash,
          numInvalidHash, hasFailure, errorCount, written, printed, emitted,
          consumed, summaryPrinted, exitCode, panicked, hashFilePath,
          entryPath, fullPath, pathPC, args, hashFileReader, srcPC, input,
          scanned, entries, parseErr, parsePC, outcomes, wrote, warned, hstate, hwhere,
          bwhere, call, calls, skipped>>

schedVars == <<checkMode, tasks, unitPC, ret, semaphore, resultChan,
               chanClosed, wg, closerPC, numValidHash, numInvalidHash,
               hasFailure, errorCount, written, printed, emitted, consumed,
               summaryPrinted, exitCode, panicked>>

pathVars == <<hashFilePath, entryPath, fullPath, pathPC>>

sourceVars == <<args, hashFileReader, srcPC>>

parseVars ==
    <<input, scanned, entries, parseErr, parsePC, outcomes, wrote, warned>>

hashVars == <<hstate, hwhere, bwhere, call, calls>>

enumVars == <<skipped>>

\* the variables of the fan-out and of the path resolution
fanOutVars == <<workersFlag, maxWorkers, mainPC, schedVars, pathVars>>

\* the variables of the parts added after the fan-out
laterVars == <<sourceVars, parseVars, hashVars, enumVars>>

(***************************************************************************)
(* Bounds of the model and constants of the program.                       *)
(***************************************************************************)
MaxTasks == 3

MaxPathLen == 3

MaxFlagExcess == 6

MaxArgLen == 2

MaxStreamLen == 6

MaxOutcomes == 2

MaxCalls == 3

MaxSkipped == 1

defaultMaxWorkers == 15

workersCap == 50

(***************************************************************************)
(* Strings.                                                                *)
(***************************************************************************)
StdinName == <<"s", "t", "d", "i", "n">>

\* strings.ToUpper on one character of the alphabets used here
ToUpperChar(c) ==
    CASE c = "a" -> "A"
      [] c = "b" -> "B"
      [] c = "c" -> "C"
      [] c = "d" -> "D"
      [] c = "e" -> "E"
      [] c = "f" -> "F"
      [] OTHER -> c

\* strings.ToUpper
ToUpper(s) == [k \in 1..Len(s) |-> ToUpperChar(s[k])]

\* one hexadecimal digit of fmt.Sprintf("%X", ...)
HexDigitUpper(n) ==
    CASE n = 10 -> "A"
      [] n = 11 -> "B"
      [] n = 12 -> "C"
      [] n = 13 -> "D"
      [] n = 14 -> "E"
      [] n = 15 -> "F"
      [] n = 0 -> "0"
      [] n = 1 -> "1"
      [] n = 2 -> "2"
      [] n = 3 -> "3"
      [] n = 4 -> "4"
      [] n = 5 -> "5"
      [] n = 6 -> "6"
      [] n = 7 -> "7"
      [] n = 8 -> "8"
      [] OTHER -> "9"

\* fmt.Sprintf("%X", sum): sum is a sequence of 4-bit values here
SprintfX(sum) == [k \in 1..Len(sum) |-> HexDigitUpper(sum[k])]

\* all sequences over S of length 1..n
SeqsUpTo(S, n) == UNION {[1..k -> S] : k \in 1..n}

(***************************************************************************)
(* The normalisation of -workers, main.go:78-85.                           *)
(***************************************************************************)
\* the normalisation without the upper cap
NormalizeNoCap(w) == IF w < 1 THEN defaultMaxWorkers ELSE w

NormalizeMaxWorkers(w) ==
    LET a == IF w < 1 THEN defaultMaxWorkers ELSE w
    IN  IF a > workersCap THEN workersCap ELSE a

(***************************************************************************)
(* path/filepath on a Unix system, as main.go uses it.                     *)
(***************************************************************************)
PathChars == {"/", ".", "a"}

\* filepath.IsAbs
IsAbs(p) == Len(p) > 0 /\ p[1] = "/"

\* the elements of p between separators (empty elements included)
SplitPath(p) ==
    LET f[k \in 0..Len(p)] ==
            IF k = 0 THEN << <<>> >>
            ELSE LET prev == f[k - 1]
                 IN  IF p[k] = "/" THEN Append(prev, <<>>)
                     ELSE [prev EXCEPT ![Len(prev)] = Append(@, p[k])]
    IN  f[Len(p)]

\* the elements joined by single separators
JoinElems(es) ==
    LET f[k \in 0..Len(es)] ==
            IF k = 0 THEN <<>>
            ELSE IF k = 1 THEN es[1]
            ELSE f[k - 1] \o <<"/">> \o es[k]
    IN  f[Len(es)]

DotDot == <<".", ".">>

\* filepath.Clean: no empty and no "." elements, each inner ".." removed with
\* the element before it, ".." removed at the root, "." for the empty result
Clean(p) ==
    LET rooted == IsAbs(p)
        es == SplitPath(p)
        f[k \in 0..Len(es)] ==
            IF k = 0 THEN <<>>
            ELSE LET st == f[k - 1]
                     e == es[k]
                 IN  IF e = <<>> \/ e = <<".">> THEN st
                     ELSE IF e = DotDot
                          THEN IF Len(st) > 0 /\ st[Len(st)] # DotDot
                               THEN SubSeq(st, 1, Len(st) - 1)
                               ELSE IF rooted THEN st ELSE Append(st, e)
                          ELSE Append(st, e)
        body == JoinElems(f[Len(es)])
        out == IF rooted THEN <<"/">> \o body ELSE body
    IN  IF out = <<>> THEN <<".">> ELSE out

\* index of the last separator of p, 0 when there is none
LastSep(p) ==
    IF \E k \in 1..Len(p) : p[k] = "/"
    THEN CHOOSE k \in 1..Len(p) :
            p[k] = "/" /\ \A j \in (k + 1)..Len(p) : p[j] # "/"
    ELSE 0

\* filepath.Dir
Dir(p) == Clean(SubSeq(p, 1, LastSep(p)))

\* filepath.Join of two elements
Join(a, b) ==
    IF a # <<>> THEN Clean(a \o <<"/">> \o b)
    ELSE IF b # <<>> THEN Clean(b)
    ELSE <<>>

\* the base path that ignores the manifest's directory
BasePathAlwaysDot(hfp, ep) == <<".">>

\* main.go:148-163 basePath
BasePath(hfp, ep) ==
    IF hfp = StdinName \/ Dir(hfp) = <<".">> THEN <<".">>
    ELSE IF ~IsAbs(ep) THEN Dir(hfp)
    ELSE <<>>

\* main.go:165-167 fullPath
ResolveFullPath(hfp, ep) == Clean(Join(BasePath(hfp, ep), ep))

\* the last element of p
LastElem(p) == SubSeq(p, LastSep(p) + 1, Len(p))

\* entry.FilePath: a non-empty string (ParseHashFile trims it)
EntryPaths == SeqsUpTo(PathChars, MaxPathLen)

\* args[0] in check mode when it names a file that can be read: its last
\* element is a file name
ManifestFiles ==
    {p \in SeqsUpTo(PathChars, MaxPathLen) :
        LastElem(p) \notin {<<>>, <<".">>, DotDot}}

\* hashFilePath: "stdin" without argument (main.go:102), else args[0]
ManifestSources == {StdinName} \cup ManifestFiles

(***************************************************************************)
(* States of the parts a specification does not exercise.                  *)
(***************************************************************************)
PathIdle ==
    /\ hashFilePath = <<>>
    /\ entryPath = <<>>
    /\ fullPath = <<>>
    /\ pathPC = "idle"

SourceIdle ==
    /\ args = <<>>
    /\ hashFileReader = <<"none">>
    /\ srcPC = "idle"

ParseIdle ==
    /\ input = <<>>
    /\ scanned = 0
    /\ entries = <<>>
    /\ parseErr = FALSE
    /\ parsePC = "idle"
    /\ outcomes = <<>>
    /\ wrote = 0
    /\ warned = 0

HashIdle ==
    /\ hstate = <<>>
    /\ hwhere = <<>>
    /\ bwhere = <<>>
    /\ call = <<>>
    /\ calls = 0

EnumIdle == skipped = 0

SchedIdle ==
    /\ checkMode = TRUE
    /\ tasks = <<>>
    /\ unitPC = <<>>
    /\ ret = <<>>
    /\ semaphore = 0
    /\ resultChan = <<>>
    /\ chanClosed = FALSE
    /\ wg = 0
    /\ closerPC = "none"
    /\ numValidHash = 0
    /\ numInvalidHash = 0
    /\ hasFailure = FALSE
    /\ errorCount = 0
    /\ written = <<>>
    /\ printed = <<>>
    /\ emitted = <<>>
    /\ consumed = 0
    /\ summaryPrinted = FALSE
    /\ exitCode = -1
    /\ panicked = FALSE

(***************************************************************************)
(* main.go:78-85: "Ensure maxWorkers is reasonable".                       *)
(***************************************************************************)
NormalizeWorkers ==
    /\ mainPC = "flags"
    /\ maxWorkers' = NormalizeMaxWorkers(maxWorkers)
    /\ mainPC' = "mode"
    /\ UNCHANGED <<workersFlag, checkMode, tasks, unitPC, ret, semaphore,
                   resultChan, chanClosed, wg, closerPC, numValidHash,
                   numInvalidHash, hasFailure, errorCount, written, printed,
                   emitted, consumed, summaryPrinted, exitCode, panicked>>
    /\ UNCHANGED pathVars
    /\ UNCHANGED laterVars

\* the values of -workers: around the two ends of the accepted range
WorkerFlags == (1 - MaxFlagExcess)..(workersCap + MaxFlagExcess)

InitWorkers ==
    /\ workersFlag \in WorkerFlags
    /\ maxWorkers = workersFlag
    /\ mainPC = "flags"
    /\ SchedIdle
    /\ PathIdle
    /\ SourceIdle
    /\ ParseIdle
    /\ HashIdle
    /\ EnumIdle

NextWorkers == NormalizeWorkers

SpecWorkers == InitWorkers /\ [][NextWorkers]_vars

(***************************************************************************)
(* main.go:146-167: the path a check-mode goroutine hashes.                *)
(***************************************************************************)
ResolvePath ==
    /\ pathPC = "entry"
    /\ fullPath' = ResolveFullPath(hashFilePath, entryPath)
    /\ pathPC' = "resolved"
    /\ UNCHANGED <<hashFilePath, entryPath, workersFlag, maxWorkers, mainPC>>
    /\ UNCHANGED schedVars
    /\ UNCHANGED laterVars

InitPath ==
    /\ hashFilePath \in ManifestSources
    /\ entryPath \in EntryPaths
    /\ fullPath = <<>>
    /\ pathPC = "entry"
    /\ workersFlag = defaultMaxWorkers
    /\ maxWorkers = defaultMaxWorkers
    /\ mainPC = "idle"
    /\ SchedIdle
    /\ SourceIdle
    /\ ParseIdle
    /\ HashIdle
    /\ EnumIdle

NextPath == ResolvePath

SpecPath == InitPath /\ [][NextPath]_vars

(***************************************************************************)
(* The fan-out and the aggregation of check mode (main.go:133-231) and of  *)
(* calculate mode (main.go:286-357).                                       *)
(***************************************************************************)
\* SHA-256 sums of the files on disk, as sequences of 4-bit values
Digests == {<<10>>, <<11>>}

\* the digest fields of the manifest lines, as written in the manifest
ManifestHashes == {<<"a">>}

\* hasher.FileEntry.Hash as ParseHashFile stores it (hasher.go:116)
EntryHashes == {ToUpper(h) : h \in ManifestHashes}

\* the values of -workers tried with the fan-out
FanOutFlags == {0, 1, 2}

N == Len(tasks)

Units == 1..N

\* the process runs: no os.Exit, no log.Fatalf, no panic yet
Alive == exitCode = -1

\* what hasher.GetSHA256 can return (hasher.go:54-83)
GetSHA256Returns ==
    {[hash |-> SprintfX(d), err |-> FALSE] : d \in Digests}
        \cup {[hash |-> <<>>, err |-> TRUE]}

NoReturn == [hash |-> <<>>, err |-> FALSE]

\* the check worker with no message for a file that cannot be read
CheckResultOfSilentError(i, entry, r) ==
    IF r.err
    THEN [FilePath |-> i, IsValid |-> FALSE, Message |-> <<>>]
    ELSE IF ToUpper(r.hash) = entry.Hash
    THEN [FilePath |-> i, IsValid |-> TRUE, Message |-> <<>>]
    ELSE [FilePath |-> i, IsValid |-> FALSE, Message |-> <<"FAILED", i>>]

\* the check worker without the test of err
CheckResultOfNoErrTest(i, entry, r) ==
    IF ToUpper(r.hash) = entry.Hash
    THEN [FilePath |-> i, IsValid |-> TRUE, Message |-> <<>>]
    ELSE [FilePath |-> i, IsValid |-> FALSE, Message |-> <<"FAILED", i>>]

\* main.go:170-184: the CheckResult of entry number i
CheckResultOf(i, entry, r) ==
    IF r.err
    THEN [FilePath |-> i, IsValid |-> FALSE,
          Message |-> <<"Error getting hash for", i>>]
    ELSE IF ToUpper(r.hash) = entry.Hash
    THEN [FilePath |-> i, IsValid |-> TRUE, Message |-> <<>>]
    ELSE [FilePath |-> i, IsValid |-> FALSE, Message |-> <<"FAILED", i>>]

\* main.go:299: the CalcResult of file number i
CalcResultOf(i, r) == [FilePath |-> i, Hash |-> r.hash, Error |-> r.err]

mainVars == <<mainPC, numValidHash, numInvalidHash, hasFailure, errorCount,
              written, printed, consumed, summaryPrinted>>

\* main.go:91-135, 234-288: calculate mode without any argument prints the
\* usage and exits with 1 (displayUsageAndExit, main.go:236-239); with
\* nothing to do the exit is 0; else the channels are made
EnterMode ==
    /\ Alive
    /\ mainPC = "mode"
    /\ IF ~checkMode /\ Len(args) = 0
       THEN /\ exitCode' = 1
            /\ mainPC' = "exited"
       ELSE IF N = 0
       THEN /\ exitCode' = 0
            /\ mainPC' = "exited"
       ELSE /\ mainPC' = "launch"
            /\ UNCHANGED exitCode
    /\ UNCHANGED <<workersFlag, maxWorkers, checkMode, tasks, unitPC, ret,
                   semaphore, resultChan, chanClosed, wg, closerPC,
                   numValidHash, numInvalidHash, hasFailure, errorCount,
                   written, printed, emitted, consumed, summaryPrinted,
                   panicked>>
    /\ UNCHANGED pathVars
    /\ UNCHANGED laterVars

\* main.go:138-140, 291-293: wg.Add(1); go func(...)
Launch(i) ==
    /\ Alive
    /\ mainPC = "launch"
    /\ unitPC[i] = "none"
    /\ \A j \in 1..(i - 1) : unitPC[j] # "none"
    /\ wg' = wg + 1
    /\ unitPC' = [unitPC EXCEPT ![i] = "start"]
    /\ mainPC' = IF i = N THEN "closer" ELSE "launch"
    /\ UNCHANGED <<workersFlag, maxWorkers, checkMode, tasks, ret, semaphore,
                   resultChan, chanClosed, closerPC, numValidHash,
                   numInvalidHash, hasFailure, errorCount, written, printed,
                   emitted, consumed, summaryPrinted, exitCode, panicked>>
    /\ UNCHANGED pathVars
    /\ UNCHANGED laterVars

\* main.go:190, 304: go func() { wg.Wait(); close(...) }()
StartCloser ==
    /\ Alive
    /\ mainPC = "closer"
    /\ closerPC' = "waiting"
    /\ mainPC' = IF checkMode THEN "collect" ELSE "output"
    /\ UNCHANGED <<workersFlag, maxWorkers, checkMode, tasks, unitPC, ret,
                   semaphore, resultChan, chanClosed, wg, numValidHash,
                   numInvalidHash, hasFailure, errorCount, written, printed,
                   emitted, consumed, summaryPrinted, exitCode, panicked>>
    /\ UNCHANGED pathVars
    /\ UNCHANGED laterVars

\* a closer that does not wait for the goroutines
CloseChanNoWait ==
    /\ Alive
    /\ closerPC = "waiting"
    /\ chanClosed' = TRUE
    /\ closerPC' = "done"
    /\ UNCHANGED <<workersFlag, maxWorkers, checkMode, tasks, unitPC, ret,
                   semaphore, resultChan, wg, emitted, exitCode, panicked>>
    /\ UNCHANGED mainVars
    /\ UNCHANGED pathVars
    /\ UNCHANGED laterVars

\* main.go:191-192, 305-306: wg.Wait() returns, close(resultChan)
CloseChan ==
    /\ Alive
    /\ closerPC = "waiting"
    /\ wg = 0
    /\ chanClosed' = TRUE
    /\ closerPC' = "done"
    /\ UNCHANGED <<workersFlag, maxWorkers, checkMode, tasks, unitPC, ret,
                   semaphore, resultChan, wg, emitted, exitCode, panicked>>
    /\ UNCHANGED mainVars
    /\ UNCHANGED pathVars
    /\ UNCHANGED laterVars

\* main.go:309-323: the output writer; os.Create may fail (log.Fatalf)
OpenOutput ==
    /\ Alive
    /\ mainPC = "output"
    /\ \E ok \in BOOLEAN :
          IF ok
          THEN /\ mainPC' = "collect"
               /\ UNCHANGED exitCode
          ELSE /\ mainPC' = "exited"
               /\ exitCode' = 1
    /\ UNCHANGED <<workersFlag, maxWorkers, checkMode, tasks, unitPC, ret,
                   semaphore, resultChan, chanClosed, wg, closerPC,
                   numValidHash, numInvalidHash, hasFailure, errorCount,
                   written, printed, emitted, consumed, summaryPrinted,
                   panicked>>
    /\ UNCHANGED pathVars
    /\ UNCHANGED laterVars

\* an acquisition that waits until every earlier task has sent its outcome
AcquireInInputOrder(i) ==
    /\ Alive
    /\ unitPC[i] = "start"
    /\ \A j \in 1..(i - 1) : emitted[j] = 1
    /\ semaphore < maxWorkers
    /\ semaphore' = semaphore + 1
    /\ unitPC' = [unitPC EXCEPT ![i] = "acquired"]
    /\ UNCHANGED <<workersFlag, maxWorkers, checkMode, tasks, ret, resultChan,
                   chanClosed, wg, closerPC, emitted, exitCode, panicked>>
    /\ UNCHANGED mainVars
    /\ UNCHANGED pathVars
    /\ UNCHANGED laterVars

\* an acquisition that does not wait for a free slot
AcquireNoWait(i) ==
    /\ Alive
    /\ unitPC[i] = "start"
    /\ semaphore' = semaphore + 1
    /\ unitPC' = [unitPC EXCEPT ![i] = "acquired"]
    /\ UNCHANGED <<workersFlag, maxWorkers, checkMode, tasks, ret, resultChan,
                   chanClosed, wg, closerPC, emitted, exitCode, panicked>>
    /\ UNCHANGED mainVars
    /\ UNCHANGED pathVars
    /\ UNCHANGED laterVars

\* main.go:143, 295: semaphore <- struct{}{}
Acquire(i) ==
    /\ Alive
    /\ unitPC[i] = "start"
    /\ semaphore < maxWorkers
    /\ semaphore' = semaphore + 1
    /\ unitPC' = [unitPC EXCEPT ![i] = "acquired"]
    /\ UNCHANGED <<workersFlag, maxWorkers, checkMode, tasks, ret, resultChan,
                   chanClosed, wg, closerPC, emitted, exitCode, panicked>>
    /\ UNCHANGED mainVars
    /\ UNCHANGED pathVars
    /\ UNCHANGED laterVars

\* main.go:169, 298: hasher.GetSHA256(path) returns
CallGetSHA256(i) ==
    /\ Alive
    /\ unitPC[i] = "acquired"
    /\ \E r \in GetSHA256Returns : ret' = [ret EXCEPT ![i] = r]
    /\ unitPC' = [unitPC EXCEPT ![i] = "hashed"]
    /\ UNCHANGED <<workersFlag, maxWorkers, checkMode, tasks, semaphore,
                   resultChan, chanClosed, wg, closerPC, emitted, exitCode,
                   panicked>>
    /\ UNCHANGED mainVars
    /\ UNCHANGED pathVars
    /\ UNCHANGED laterVars

\* the outcome goroutine i sends
ResultOf(i) ==
    IF checkMode THEN CheckResultOf(i, tasks[i], ret[i])
    ELSE CalcResultOf(i, ret[i])

\* a worker that returns on an error without sending its outcome
SendResultUnlessError(i) ==
    /\ Alive
    /\ unitPC[i] = "hashed"
    /\ IF ret[i].err
       THEN UNCHANGED <<resultChan, emitted>>
       ELSE /\ Len(resultChan) < N
            /\ resultChan' = Append(resultChan, ResultOf(i))
            /\ emitted' = [emitted EXCEPT ![i] = @ + 1]
    /\ unitPC' = [unitPC EXCEPT ![i] = "sent"]
    /\ UNCHANGED <<workersFlag, maxWorkers, checkMode, tasks, ret, semaphore,
                   chanClosed, wg, closerPC, exitCode, panicked>>
    /\ UNCHANGED mainVars
    /\ UNCHANGED pathVars
    /\ UNCHANGED laterVars

\* a worker that sends its outcome twice
SendResultTwice(i) ==
    /\ Alive
    /\ unitPC[i] = "hashed"
    /\ IF chanClosed
       THEN /\ panicked' = TRUE
            /\ exitCode' = 2
            /\ UNCHANGED <<resultChan, emitted, unitPC>>
       ELSE /\ Len(resultChan) < N
            /\ resultChan' = Append(resultChan, ResultOf(i))
            /\ emitted' = [emitted EXCEPT ![i] = @ + 1]
            /\ unitPC' = [unitPC EXCEPT ![i] =
                              IF emitted[i] = 0 THEN "hashed" ELSE "sent"]
            /\ UNCHANGED <<panicked, exitCode>>
    /\ UNCHANGED <<workersFlag, maxWorkers, checkMode, tasks, ret, semaphore,
                   chanClosed, wg, closerPC>>
    /\ UNCHANGED mainVars
    /\ UNCHANGED pathVars
    /\ UNCHANGED laterVars

\* a worker that gives its slot back before it sends its outcome
SendResultSlotFreed(i) ==
    /\ Alive
    /\ unitPC[i] = "hashed"
    /\ IF chanClosed
       THEN /\ panicked' = TRUE
            /\ exitCode' = 2
            /\ UNCHANGED <<resultChan, emitted, unitPC, semaphore>>
       ELSE /\ Len(resultChan) < N
            /\ semaphore > 0
            /\ semaphore' = semaphore - 1
            /\ resultChan' = Append(resultChan, ResultOf(i))
            /\ emitted' = [emitted EXCEPT ![i] = @ + 1]
            /\ unitPC' = [unitPC EXCEPT ![i] = "released"]
            /\ UNCHANGED <<panicked, exitCode>>
    /\ UNCHANGED <<workersFlag, maxWorkers, checkMode, tasks, ret, chanClosed,
                   wg, closerPC>>
    /\ UNCHANGED mainVars
    /\ UNCHANGED pathVars
    /\ UNCHANGED laterVars

\* main.go:170-185, 299: the outcome is built and sent on the result channel
\* (a send on a closed channel panics, which ends the process)
SendResult(i) ==
    /\ Alive
    /\ unitPC[i] = "hashed"
    /\ IF chanClosed
       THEN /\ panicked' = TRUE
            /\ exitCode' = 2
            /\ UNCHANGED <<resultChan, emitted, unitPC>>
       ELSE /\ Len(resultChan) < N
            /\ resultChan' = Append(resultChan, ResultOf(i))
            /\ emitted' = [emitted EXCEPT ![i] = @ + 1]
            /\ unitPC' = [unitPC EXCEPT ![i] = "sent"]
            /\ UNCHANGED <<panicked, exitCode>>
    /\ UNCHANGED <<workersFlag, maxWorkers, checkMode, tasks, ret, semaphore,
                   chanClosed, wg, closerPC>>
    /\ UNCHANGED mainVars
    /\ UNCHANGED pathVars
    /\ UNCHANGED laterVars

\* a release that is skipped when GetSHA256 failed
ReleaseUnlessError(i) ==
    /\ Alive
    /\ unitPC[i] = "sent"
    /\ IF ret[i].err
       THEN UNCHANGED semaphore
       ELSE /\ semaphore > 0
            /\ semaphore' = semaphore - 1
    /\ unitPC' = [unitPC EXCEPT ![i] = "released"]
    /\ UNCHANGED <<workersFlag, maxWorkers, checkMode, tasks, ret, resultChan,
                   chanClosed, wg, closerPC, emitted, exitCode, panicked>>
    /\ UNCHANGED mainVars
    /\ UNCHANGED pathVars
    /\ UNCHANGED laterVars

\* main.go:144, 296: the deferred <-semaphore
Release(i) ==
    /\ Alive
    /\ unitPC[i] = "sent"
    /\ semaphore > 0
    /\ semaphore' = semaphore - 1
    /\ unitPC' = [unitPC EXCEPT ![i] = "released"]
    /\ UNCHANGED <<workersFlag, maxWorkers, checkMode, tasks, ret, resultChan,
                   chanClosed, wg, closerPC, emitted, exitCode, panicked>>
    /\ UNCHANGED mainVars
    /\ UNCHANGED pathVars
    /\ UNCHANGED laterVars

\* main.go:141, 294: the deferred wg.Done()
Done(i) ==
    /\ Alive
    /\ unitPC[i] = "released"
    /\ wg' = wg - 1
    /\ unitPC' = [unitPC EXCEPT ![i] = "done"]
    /\ UNCHANGED <<workersFlag, maxWorkers, checkMode, tasks, ret, semaphore,
                   resultChan, chanClosed, closerPC, emitted, exitCode,
                   panicked>>
    /\ UNCHANGED mainVars
    /\ UNCHANGED pathVars
    /\ UNCHANGED laterVars

unitVars == <<unitPC, ret, semaphore, wg, emitted>>

\* a check-mode loop that stops the process at the first failure
ReceiveCheckExitOnFailure ==
    /\ Alive
    /\ checkMode
    /\ mainPC = "collect"
    /\ Len(resultChan) > 0
    /\ LET result == Head(resultChan)
       IN  /\ printed' = IF result.Message # <<>>
                         THEN [printed EXCEPT ![result.Message[2]] = @ + 1]
                         ELSE printed
           /\ IF result.IsValid
              THEN /\ numValidHash' = numValidHash + 1
                   /\ UNCHANGED <<numInvalidHash, hasFailure, exitCode, mainPC>>
              ELSE /\ numInvalidHash' = numInvalidHash + 1
                   /\ hasFailure' = TRUE
                   /\ exitCode' = 1
                   /\ mainPC' = "exited"
                   /\ UNCHANGED numValidHash
    /\ resultChan' = Tail(resultChan)
    /\ consumed' = consumed + 1
    /\ UNCHANGED <<workersFlag, maxWorkers, checkMode, tasks, chanClosed,
                   closerPC, errorCount, written, summaryPrinted, panicked>>
    /\ UNCHANGED unitVars
    /\ UNCHANGED pathVars
    /\ UNCHANGED laterVars

\* a check-mode loop that counts the outcomes with an error nowhere
ReceiveCheckErrorsUncounted ==
    /\ Alive
    /\ checkMode
    /\ mainPC = "collect"
    /\ Len(resultChan) > 0
    /\ LET result == Head(resultChan)
       IN  /\ printed' = IF result.Message # <<>>
                         THEN [printed EXCEPT ![result.Message[2]] = @ + 1]
                         ELSE printed
           /\ IF result.IsValid
              THEN /\ numValidHash' = numValidHash + 1
                   /\ UNCHANGED <<numInvalidHash, hasFailure>>
              ELSE IF result.Message[1] = "FAILED"
              THEN /\ numInvalidHash' = numInvalidHash + 1
                   /\ hasFailure' = TRUE
                   /\ UNCHANGED numValidHash
              ELSE UNCHANGED <<numValidHash, numInvalidHash, hasFailure>>
    /\ resultChan' = Tail(resultChan)
    /\ consumed' = consumed + 1
    /\ UNCHANGED <<workersFlag, maxWorkers, checkMode, tasks, chanClosed,
                   closerPC, errorCount, written, summaryPrinted, exitCode,
                   panicked, mainPC>>
    /\ UNCHANGED unitVars
    /\ UNCHANGED pathVars
    /\ UNCHANGED laterVars

\* a check-mode loop that counts an invalid outcome and leaves the flag
ReceiveCheckFlagUnset ==
    /\ Alive
    /\ checkMode
    /\ mainPC = "collect"
    /\ Len(resultChan) > 0
    /\ LET result == Head(resultChan)
       IN  /\ printed' = IF result.Message # <<>>
                         THEN [printed EXCEPT ![result.Message[2]] = @ + 1]
                         ELSE printed
           /\ IF result.IsValid
              THEN /\ numValidHash' = numValidHash + 1
                   /\ UNCHANGED numInvalidHash
              ELSE /\ numInvalidHash' = numInvalidHash + 1
                   /\ UNCHANGED numValidHash
    /\ resultChan' = Tail(resultChan)
    /\ consumed' = consumed + 1
    /\ UNCHANGED <<workersFlag, maxWorkers, checkMode, tasks, chanClosed,
                   closerPC, errorCount, written, summaryPrinted, exitCode,
                   panicked, mainPC, hasFailure>>
    /\ UNCHANGED unitVars
    /\ UNCHANGED pathVars
    /\ UNCHANGED laterVars

\* main.go:200-210: one iteration of "for result := range checkResultChan"
ReceiveCheck ==
    /\ Alive
    /\ checkMode
    /\ mainPC = "collect"
    /\ Len(resultChan) > 0
    /\ LET result == Head(resultChan)
       IN  /\ printed' = IF result.Message # <<>>
                         THEN [printed EXCEPT ![result.Message[2]] = @ + 1]
                         ELSE printed
           /\ IF result.IsValid
              THEN /\ numValidHash' = numValidHash + 1
                   /\ UNCHANGED <<numInvalidHash, hasFailure>>
              ELSE /\ numInvalidHash' = numInvalidHash + 1
                   /\ hasFailure' = TRUE
                   /\ UNCHANGED numValidHash
    /\ resultChan' = Tail(resultChan)
    /\ consumed' = consumed + 1
    /\ UNCHANGED <<workersFlag, maxWorkers, checkMode, tasks, chanClosed,
                   closerPC, errorCount, written, summaryPrinted, exitCode,
                   panicked, mainPC>>
    /\ UNCHANGED unitVars
    /\ UNCHANGED pathVars
    /\ UNCHANGED laterVars

\* a calculate-mode loop that writes a line for a failed outcome too
ReceiveCalcWritesErrors ==
    /\ Alive
    /\ ~checkMode
    /\ mainPC = "collect"
    /\ Len(resultChan) > 0
    /\ LET result == Head(resultChan)
       IN  /\ errorCount' = IF result.Error THEN errorCount + 1 ELSE errorCount
           /\ written' = [written EXCEPT ![result.FilePath] = @ + 1]
    /\ resultChan' = Tail(resultChan)
    /\ consumed' = consumed + 1
    /\ UNCHANGED <<workersFlag, maxWorkers, checkMode, tasks, chanClosed,
                   closerPC, numValidHash, numInvalidHash, hasFailure,
                   printed, summaryPrinted, exitCode, panicked, mainPC>>
    /\ UNCHANGED unitVars
    /\ UNCHANGED pathVars
    /\ UNCHANGED laterVars

\* main.go:327-338: one iteration of "for result := range calcResultChan"
ReceiveCalc ==
    /\ Alive
    /\ ~checkMode
    /\ mainPC = "collect"
    /\ Len(resultChan) > 0
    /\ LET result == Head(resultChan)
       IN  IF result.Error
           THEN /\ errorCount' = errorCount + 1
                /\ UNCHANGED written
           ELSE /\ written' = [written EXCEPT ![result.FilePath] = @ + 1]
                /\ UNCHANGED errorCount
    /\ resultChan' = Tail(resultChan)
    /\ consumed' = consumed + 1
    /\ UNCHANGED <<workersFlag, maxWorkers, checkMode, tasks, chanClosed,
                   closerPC, numValidHash, numInvalidHash, hasFailure,
                   printed, summaryPrinted, exitCode, panicked, mainPC>>
    /\ UNCHANGED unitVars
    /\ UNCHANGED pathVars
    /\ UNCHANGED laterVars

\* main.go:200, 327: the range loop ends: the channel is closed and drained
LoopEnd ==
    /\ Alive
    /\ mainPC = "collect"
    /\ Len(resultChan) = 0
    /\ chanClosed
    /\ mainPC' = "summary"
    /\ UNCHANGED <<workersFlag, maxWorkers, checkMode, tasks, resultChan,
                   chanClosed, closerPC, numValidHash, numInvalidHash,
                   hasFailure, errorCount, written, printed, consumed,
                   summaryPrinted, exitCode, panicked>>
    /\ UNCHANGED unitVars
    /\ UNCHANGED pathVars
    /\ UNCHANGED laterVars

\* main.go:212-227, 340-356: the warning and the summary line are printed
PrintSummary ==
    /\ Alive
    /\ mainPC = "summary"
    /\ summaryPrinted' = TRUE
    /\ mainPC' = "exit"
    /\ UNCHANGED <<workersFlag, maxWorkers, checkMode, tasks, resultChan,
                   chanClosed, closerPC, numValidHash, numInvalidHash,
                   hasFailure, errorCount, written, printed, consumed,
                   exitCode, panicked>>
    /\ UNCHANGED unitVars
    /\ UNCHANGED pathVars
    /\ UNCHANGED laterVars

\* an end of main that forgets os.Exit(1)
ExitAlwaysZero ==
    /\ Alive
    /\ mainPC = "exit"
    /\ exitCode' = 0
    /\ mainPC' = "exited"
    /\ UNCHANGED <<workersFlag, maxWorkers, checkMode, tasks, resultChan,
                   chanClosed, closerPC, numValidHash, numInvalidHash,
                   hasFailure, errorCount, written, printed, consumed,
                   summaryPrinted, panicked>>
    /\ UNCHANGED unitVars
    /\ UNCHANGED pathVars
    /\ UNCHANGED laterVars

\* main.go:229-231, 340-348, 371: os.Exit(1) on failure, else main returns
Exit ==
    /\ Alive
    /\ mainPC = "exit"
    /\ exitCode' = IF checkMode
                   THEN (IF hasFailure THEN 1 ELSE 0)
                   ELSE (IF errorCount > 0 THEN 1 ELSE 0)
    /\ mainPC' = "exited"
    /\ UNCHANGED <<workersFlag, maxWorkers, checkMode, tasks, resultChan,
                   chanClosed, closerPC, numValidHash, numInvalidHash,
                   hasFailure, errorCount, written, printed, consumed,
                   summaryPrinted, panicked>>
    /\ UNCHANGED unitVars
    /\ UNCHANGED pathVars
    /\ UNCHANGED laterVars

\* main.go:88, 236-271: the arguments of a calculate-mode run that finds
\* these files and skips this many arguments: none at all or an empty
\* directory "d" when nothing is found and nothing skipped, else the
\* skipped arguments "m" (os.Stat fails) and the files "a"
CalcArgLists(files, skip) ==
    IF Len(files) = 0 /\ skip = 0
    THEN {<<>>, << <<"d">> >>}
    ELSE {[k \in 1..skip |-> <<"m">>] \o [k \in 1..Len(files) |-> <<"a">>]}

\* the manifests (check mode) and the file lists (calculate mode)
TaskLists(check) ==
    LET E == IF check THEN [Hash : EntryHashes] ELSE {[Hash |-> <<>>]}
    IN  {<<>>} \cup SeqsUpTo(E, MaxTasks)

Init ==
    /\ workersFlag \in FanOutFlags
    /\ maxWorkers = workersFlag
    /\ mainPC = "flags"
    /\ checkMode \in BOOLEAN
    /\ tasks \in TaskLists(checkMode)
    /\ unitPC = [i \in 1..Len(tasks) |-> "none"]
    /\ ret = [i \in 1..Len(tasks) |-> NoReturn]
    /\ semaphore = 0
    /\ resultChan = <<>>
    /\ chanClosed = FALSE
    /\ wg = 0
    /\ closerPC = "none"
    /\ numValidHash = 0
    /\ numInvalidHash = 0
    /\ hasFailure = FALSE
    /\ errorCount = 0
    /\ written = [i \in 1..Len(tasks) |-> 0]
    /\ printed = [i \in 1..Len(tasks) |-> 0]
    /\ emitted = [i \in 1..Len(tasks) |-> 0]
    /\ consumed = 0
    /\ summaryPrinted = FALSE
    /\ exitCode = -1
    /\ panicked = FALSE
    /\ PathIdle
    /\ args \in (IF checkMode THEN {<<>>} ELSE CalcArgLists(tasks, 0))
    /\ hashFileReader = <<"none">>
    /\ srcPC = "idle"
    /\ ParseIdle
    /\ HashIdle
    /\ EnumIdle

\* the steps of main()
MainStep ==
    \/ NormalizeWorkers
    \/ EnterMode
    \/ \E i \in Units : Launch(i)
    \/ StartCloser
    \/ OpenOutput
    \/ ReceiveCheck
    \/ ReceiveCalc
    \/ LoopEnd
    \/ PrintSummary
    \/ Exit

\* the steps of the goroutine of task i
UnitStep(i) ==
    /\ i \in Units
    /\ \/ Acquire(i)
       \/ CallGetSHA256(i)
       \/ SendResult(i)
       \/ Release(i)
       \/ Done(i)

Next ==
    \/ MainStep
    \/ CloseChan
    \/ \E i \in 1..MaxTasks : UnitStep(i)

Spec == Init /\ [][Next]_vars

\* the Go scheduler runs every goroutine that can run; file I/O returns
FairSpec ==
    /\ Spec
    /\ WF_vars(MainStep)
    /\ WF_vars(CloseChan)
    /\ \A i \in 1..MaxTasks : WF_vars(UnitStep(i))

(***************************************************************************)
(* Properties.                                                             *)
(***************************************************************************)
\* goroutine i holds a semaphore slot: acquired and not yet released
Holding(i) == unitPC[i] \in {"acquired", "hashed", "sent"}

\* goroutine i has got its answer from GetSHA256
Hashed(i) == unitPC[i] \in {"hashed", "sent", "released", "done"}

\* the range loop of the aggregator has ended
LoopEnded == mainPC \in {"summary", "exit"} \/ summaryPrinted

\* what happened to entry i: its file could not be read, or its digest is
\* the manifest's, or it is another one
Outcome(i) ==
    IF ret[i].err THEN "error"
    ELSE IF ret[i].hash = tasks[i].Hash THEN "match"
    ELSE "mismatch"

HowMany(kind) == Cardinality({i \in Units : Hashed(i) /\ Outcome(i) = kind})

\* C1: in both modes, in every reachable state, the number of goroutines
\* that have acquired a semaphore slot and not yet released it is at most
\* the effective worker limit, and it is the number of tokens in the
\* semaphore channel.
C1_AtMostWInFlight ==
    /\ Cardinality({i \in Units : Holding(i)}) <= maxWorkers
    /\ Cardinality({i \in Units : Holding(i)}) = semaphore

\* C1 witness: the limit is reached while another goroutine waits for a slot
C1_Witness ==
    /\ Cardinality({i \in Units : Holding(i)}) = maxWorkers
    /\ \E i \in Units : unitPC[i] = "start"
    /\ \E i \in Units : unitPC[i] = "hashed"

\* C2: every task emits exactly one outcome, never two, whether GetSHA256
\* succeeded or failed: a goroutine past its send has emitted one and no
\* goroutine has emitted more; when the aggregator's loop has ended every
\* task has emitted one, exactly N outcomes have been consumed, and in
\* check mode numValidHash + numInvalidHash = N.
C2_ExactlyOneOutcomePerTask ==
    /\ \A i \in Units :
          /\ emitted[i] <= 1
          /\ unitPC[i] \in {"sent", "released", "done"} => emitted[i] = 1
          /\ unitPC[i] \in {"none", "start", "acquired", "hashed"}
                => emitted[i] = 0
    /\ consumed + Len(resultChan) = Cardinality({i \in Units : emitted[i] = 1})
    /\ LoopEnded =>
          /\ \A i \in Units : emitted[i] = 1
          /\ consumed = N
          /\ checkMode => numValidHash + numInvalidHash = N

\* C2 witness: the loop has ended on a run with a failed and a successful task
C2_Witness ==
    /\ LoopEnded
    /\ checkMode
    /\ N >= 2
    /\ \E i \in Units : ret[i].err
    /\ \E i \in Units : ~ret[i].err

\* all goroutines have finished, the channel is closed, the loop has ended
AllFinished ==
    /\ \A i \in Units : unitPC[i] = "done"
    /\ chanClosed
    /\ LoopEnded
    /\ semaphore = 0

\* calculate mode only: os.Create of the -o file failed and log.Fatalf ended
\* the process before the loop.  The writer is made after the goroutine
\* that waits and closes was started (main.go:304, 309), which the usage
\* exit of a run without argument (main.go:236-239) never reaches.
OutputFailed ==
    /\ ~checkMode
    /\ mainPC = "exited"
    /\ exitCode = 1
    /\ ~summaryPrinted
    /\ closerPC # "none"

\* C3: under fair scheduling, every run with at least one task (N larger
\* than the limit or not, tasks failing or not) eventually reaches the state
\* where all goroutines have finished, the result channel is closed and the
\* aggregator's loop has ended. (In calculate mode the run may instead be
\* ended by log.Fatalf when the output file cannot be created.)
C3_EventuallyAllFinished == (N > 0) => <>(AllFinished \/ OutputFailed)

\* C3 witness: all is finished on a run with more tasks than slots in which
\* every task failed
C3_Witness ==
    /\ AllFinished
    /\ checkMode
    /\ N > maxWorkers
    /\ \A i \in Units : ret[i].err

\* C4: in check mode the exit status is zero if and only if every entry's
\* outcome is a match (so also for an empty manifest), and it is 1 when an
\* entry is a mismatch or an error.
C4_ExitZeroIffAllMatch ==
    (checkMode /\ mainPC = "exited") =>
        /\ \A i \in Units : Hashed(i)
        /\ exitCode \in {0, 1}
        /\ exitCode = 0 <=> \A i \in Units : Outcome(i) = "match"

\* C4 witness: a run with a matching entry and an unreadable one has exited
C4_Witness ==
    /\ checkMode
    /\ mainPC = "exited"
    /\ exitCode = 1
    /\ \E i \in Units : Outcome(i) = "match"
    /\ \E i \in Units : Outcome(i) = "error"
    /\ \A i \in Units : Outcome(i) # "mismatch"

\* C5: in check mode a non-zero exit is taken only after all N outcomes
\* have been consumed and the summary line has been printed.
C5_NoExitBeforeSummary ==
    (checkMode /\ exitCode \notin {-1, 0}) =>
        /\ consumed = N
        /\ summaryPrinted

\* C5 witness: the process has exited non-zero after a run in which valid
\* outcomes were still counted besides a failure
C5_Witness ==
    /\ checkMode
    /\ exitCode = 1
    /\ numInvalidHash >= 1
    /\ numValidHash >= 1

IsMatch(r) == r.IsValid /\ r.Message = <<>>

IsMismatch(r) == ~r.IsValid /\ r.Message = <<"FAILED", r.FilePath>>

IsError(r) == ~r.IsValid /\ r.Message = <<"Error getting hash for", r.FilePath>>

\* C6: every outcome sent in check mode is exactly one of match, mismatch
\* and error: a match when the computed digest is the manifest's, a mismatch
\* when a digest was computed and differs, an error when GetSHA256 failed;
\* an error is never valid.
C6_ThreeWayClassification ==
    checkMode =>
        \A k \in 1..Len(resultChan) :
            LET r == resultChan[k]
                i == r.FilePath
            IN  /\ Outcome(i) = "match" => IsMatch(r)
                /\ Outcome(i) = "mismatch" => IsMismatch(r)
                /\ Outcome(i) = "error" => IsError(r)
                /\ ret[i].err => ~r.IsValid

\* C6 witness: the channel holds the outcome of an unreadable file and the
\* outcome of a matching one
C6_Witness ==
    /\ checkMode
    /\ \E k \in 1..Len(resultChan) : Outcome(resultChan[k].FilePath) = "error"
    /\ \E k \in 1..Len(resultChan) : Outcome(resultChan[k].FilePath) = "match"

\* C7 as stated: the count of mismatches (numInvalidHash, printed as
\* "computed hashes did not match") leaves out the outcomes with an error,
\* which go to a count of their own.
C7_ErrorsApartFromMismatches ==
    (checkMode /\ LoopEnded) => numInvalidHash = HowMany("mismatch")

\* C7 amended: the report has two counts: every match increments
\* numValidHash, every mismatch and every error increments numInvalidHash.
C7_ErrorsCountedAsInvalid ==
    (checkMode /\ LoopEnded) =>
        /\ numValidHash = HowMany("match")
        /\ numInvalidHash = HowMany("mismatch") + HowMany("error")

\* C7 witness: one correct entry and one altered one: 1 valid, 1 invalid
C7_Witness ==
    /\ checkMode
    /\ LoopEnded
    /\ N = 2
    /\ HowMany("match") = 1
    /\ HowMany("mismatch") = 1
    /\ numValidHash = 1
    /\ numInvalidHash = 1

\* C8 as stated: the limit is the -workers value clamped to [1, 50].
C8_ClampedTo1And50 ==
    mainPC = "mode" =>
        maxWorkers = (IF workersFlag < 1 THEN 1
                      ELSE IF workersFlag > 50 THEN 50 ELSE workersFlag)

\* C8 amended: a value above 50 becomes 50, a value below 1 becomes the
\* default 15, and a value in 1..50 is used unchanged.
C8_CappedOrDefault ==
    mainPC = "mode" =>
        maxWorkers = (IF workersFlag < 1 THEN 15
                      ELSE IF workersFlag > 50 THEN 50 ELSE workersFlag)

\* C8 witness: a value below 1 has been normalised
C8_Witness == mainPC = "mode" /\ workersFlag < 1 /\ maxWorkers = 15

\* C9: an entry whose path is absolute is hashed at that absolute path,
\* whatever the manifest source.
C9_AbsolutePathAsIs ==
    (pathPC = "resolved" /\ IsAbs(entryPath)) => fullPath = Clean(entryPath)

\* C10: an entry whose path is relative is hashed at the join of the
\* manifest file's directory and the entry path, and at the entry path
\* itself (relative to the working directory) when the manifest is stdin.
C10_RelativeToManifestDir ==
    (pathPC = "resolved" /\ ~IsAbs(entryPath)) =>
        fullPath = (IF hashFilePath = StdinName THEN Clean(entryPath)
                    ELSE Join(Dir(hashFilePath), entryPath))

\* C10 witness: a relative entry of a manifest in another directory has been
\* resolved below that directory
C10_Witness ==
    /\ pathPC = "resolved"
    /\ hashFilePath = <<"a", "/", "a">>
    /\ entryPath = <<"a">>
    /\ fullPath = <<"a", "/", "a">>

(***************************************************************************)
(* main.go:95-118: the manifest source of check mode.                      *)
(***************************************************************************)
ArgChars == {"-", ".", "/", "a"}

\* the command-line arguments after the flags: none, one or two
ArgLists ==
    LET A == SeqsUpTo(ArgChars, MaxArgLen)
    IN  {<<>>} \cup {<<a>> : a \in A} \cup {<<a, b>> : a \in A, b \in {<<"a">>, <<"-">>}}

\* main.go:98-118: stdin without argument, os.Open(args[0]) with one
\* argument (log.Fatalf when it fails), the usage and exit 1 with more
SelectSource ==
    /\ srcPC = "args"
    /\ IF Len(args) = 0
       THEN /\ hashFileReader' = <<"stdin">>
            /\ hashFilePath' = StdinName
            /\ srcPC' = "parse"
            /\ UNCHANGED exitCode
       ELSE IF Len(args) = 1
       THEN /\ hashFilePath' = args[1]
            /\ \E ok \in BOOLEAN :
                  IF ok
                  THEN /\ hashFileReader' = <<"file", args[1]>>
                       /\ srcPC' = "parse"
                       /\ UNCHANGED exitCode
                  ELSE /\ exitCode' = 1
                       /\ srcPC' = "exited"
                       /\ UNCHANGED hashFileReader
       ELSE /\ exitCode' = 1
            /\ srcPC' = "exited"
            /\ UNCHANGED <<hashFileReader, hashFilePath>>
    /\ UNCHANGED <<workersFlag, maxWorkers, mainPC, args, entryPath, fullPath,
                   pathPC>>
    /\ UNCHANGED <<checkMode, tasks, unitPC, ret, semaphore, resultChan,
                   chanClosed, wg, closerPC, numValidHash, numInvalidHash,
                   hasFailure, errorCount, written, printed, emitted,
                   consumed, summaryPrinted, panicked>>
    /\ UNCHANGED <<parseVars, hashVars, enumVars>>

InitSource ==
    /\ args \in ArgLists
    /\ hashFileReader = <<"none">>
    /\ srcPC = "args"
    /\ workersFlag = defaultMaxWorkers
    /\ maxWorkers = defaultMaxWorkers
    /\ mainPC = "idle"
    /\ SchedIdle
    /\ PathIdle
    /\ ParseIdle
    /\ HashIdle
    /\ EnumIdle

NextSource == SelectSource

SpecSource == InitSource /\ [][NextSource]_vars

\* C11: with the single argument "-" the manifest is read from standard
\* input and no file named "-" is opened.
C11_DashSelectsStdin ==
    (args = << <<"-">> >> /\ srcPC # "args") =>
        /\ srcPC = "parse"
        /\ hashFileReader = <<"stdin">>

(***************************************************************************)
(* The manifest reader, hasher.go:88-127.  A stream is a sequence of       *)
(* bytes; LongRun stands for a run of MaxScanTokenSize bytes "a".          *)
(***************************************************************************)
\* bufio.MaxScanTokenSize, the limit of the scanner of hasher.go:90
MaxScanTokenSize == 64 * 1024

LongRun == "a..."

\* the number of bytes of a piece of a stream
Size(s) ==
    Len(s) + (MaxScanTokenSize - 1) * Cardinality({k \in 1..Len(s) : s[k] = LongRun})

\* unicode.IsSpace on the characters used here
IsSpace(c) == c \in {" ", "\t", "\r", "\n"}

\* strings.TrimSpace
TrimSpace(s) ==
    LET keep == {k \in 1..Len(s) : ~IsSpace(s[k])}
    IN  IF keep = {}
        THEN <<>>
        ELSE SubSeq(s, CHOOSE k \in keep : \A j \in keep : k <= j,
                       CHOOSE k \in keep : \A j \in keep : j <= k)

\* strings.HasPrefix
HasPrefix(s, prefix) ==
    /\ Len(s) >= Len(prefix)
    /\ SubSeq(s, 1, Len(prefix)) = prefix

\* strings.Index, counted from 1; 0 when sep does not occur
Index(s, sep) ==
    LET at == {k \in 1..(Len(s) - Len(sep) + 1) :
                  SubSeq(s, k, k + Len(sep) - 1) = sep}
    IN  IF at = {} THEN 0 ELSE CHOOSE k \in at : \A j \in at : k <= j

\* a split at the last occurrence of sep
SplitAtLast(s, sep) ==
    LET at == {k \in 1..(Len(s) - Len(sep) + 1) :
                  SubSeq(s, k, k + Len(sep) - 1) = sep}
        k == IF at = {} THEN 0 ELSE CHOOSE i \in at : \A j \in at : j <= i
    IN  IF k = 0
        THEN <<s>>
        ELSE <<SubSeq(s, 1, k - 1), SubSeq(s, k + Len(sep), Len(s))>>

\* strings.SplitN(s, sep, 2)
SplitN2(s, sep) ==
    LET k == Index(s, sep)
    IN  IF k = 0
        THEN <<s>>
        ELSE <<SubSeq(s, 1, k - 1), SubSeq(s, k + Len(sep), Len(s))>>

\* the loop body without the trimming of the two fields
ParseLineNoFieldTrim(text) ==
    LET line == TrimSpace(text)
        parts == SplitN2(line, <<" ", " ">>)
    IN  IF Len(line) = 0 \/ HasPrefix(line, <<"#">>)
        THEN <<>>
        ELSE IF Len(parts) # 2
        THEN <<>>
        ELSE << [Hash |-> ToUpper(parts[1]), FilePath |-> parts[2]] >>

\* the loop body without the upper-casing of the digest
ParseLineKeepCase(text) ==
    LET line == TrimSpace(text)
        parts == SplitN2(line, <<" ", " ">>)
    IN  IF Len(line) = 0 \/ HasPrefix(line, <<"#">>)
        THEN <<>>
        ELSE IF Len(parts) # 2
        THEN <<>>
        ELSE << [Hash |-> TrimSpace(parts[1]),
                 FilePath |-> TrimSpace(parts[2])] >>

\* the loop body with the comment test made only for lines that do not
\* split in two
ParseLineSplitFirst(text) ==
    LET line == TrimSpace(text)
        parts == SplitN2(line, <<" ", " ">>)
    IN  IF Len(line) = 0
        THEN <<>>
        ELSE IF Len(parts) # 2
        THEN <<>>
        ELSE << [Hash |-> ToUpper(TrimSpace(parts[1])),
                 FilePath |-> TrimSpace(parts[2])] >>

\* hasher.go:98-118: the entries one line adds, none or one
ParseLine(text) ==
    LET line == TrimSpace(text)
        parts == SplitN2(line, <<" ", " ">>)
    IN  IF Len(line) = 0 \/ HasPrefix(line, <<"#">>)
        THEN <<>>
        ELSE IF Len(parts) # 2
        THEN <<>>
        ELSE << [Hash |-> ToUpper(TrimSpace(parts[1])),
                 FilePath |-> TrimSpace(parts[2])] >>

\* hasher.go:107-111: the warnings one line adds to the log, none or one
LogsMalformed(text) ==
    LET line == TrimSpace(text)
        parts == SplitN2(line, <<" ", " ">>)
    IN  IF Len(line) = 0 \/ HasPrefix(line, <<"#">>)
        THEN 0
        ELSE IF Len(parts) # 2
        THEN 1
        ELSE 0

\* bufio.ScanLines: the position of the next newline from k on, 0 if none
NextNewline(s, k) ==
    LET at == {j \in k..Len(s) : s[j] = "\n"}
    IN  IF at = {} THEN 0 ELSE CHOOSE j \in at : \A i \in at : j <= i

\* bufio.ScanLines (dropCR): one trailing carriage return is dropped
DropCR(s) ==
    IF Len(s) > 0 /\ s[Len(s)] = "\r" THEN SubSeq(s, 1, Len(s) - 1) ELSE s

\* hasher.go:96-118 and, for a line the scanner cannot hold, 122-124: one
\* scanner.Scan() with the loop body.  A line of MaxScanTokenSize bytes or
\* more ends the scan with bufio.ErrTooLong and the parse returns nil and
\* an error.
Scan ==
    /\ parsePC = "scan"
    /\ scanned < Len(input)
    /\ LET nl == NextNewline(input, scanned + 1)
           stop == IF nl = 0 THEN Len(input) ELSE nl - 1
           raw == SubSeq(input, scanned + 1, stop)
       IN  IF Size(raw) >= MaxScanTokenSize
           THEN /\ parseErr' = TRUE
                /\ entries' = <<>>
                /\ parsePC' = "done"
                /\ UNCHANGED <<scanned, warned>>
           ELSE /\ entries' = entries \o ParseLine(DropCR(raw))
                /\ warned' = warned + LogsMalformed(DropCR(raw))
                /\ scanned' = (IF nl = 0 THEN Len(input) ELSE nl)
                /\ UNCHANGED <<parseErr, parsePC>>
    /\ UNCHANGED <<input, outcomes, wrote>>
    /\ UNCHANGED <<fanOutVars, sourceVars, hashVars, enumVars>>

\* hasher.go:96, 122-126: the stream is at its end, entries are returned
ParseReturn ==
    /\ parsePC = "scan"
    /\ scanned = Len(input)
    /\ parsePC' = "done"
    /\ UNCHANGED <<input, scanned, entries, parseErr, outcomes, wrote, warned>>
    /\ UNCHANGED <<fanOutVars, sourceVars, hashVars, enumVars>>

\* the two-nibble digests of the files of the manifests parsed here
FileDigests == {<<10, 11>>}

\* the spellings of a digest string in lower, upper and mixed case
CaseSpellings(h) ==
    {s \in [1..Len(h) -> {"a", "b", "A", "B"}] : ToUpper(s) = h}

Sep == <<" ", " ">>

StreamChars == {" ", "#", "a", "\n"}

\* every stream of up to MaxStreamLen bytes over StreamChars
ShortStreams == {<<>>} \cup SeqsUpTo(StreamChars, MaxStreamLen)

\* one-line manifests naming file "a" with each spelling of its digest
SpelledStreams ==
    {h \o Sep \o <<"a", "\n">> :
        h \in UNION {CaseSpellings(SprintfX(d)) : d \in FileDigests}}

\* streams with tabs, carriage returns, three separator spaces, a non-hex
\* digest, and lines of MaxScanTokenSize bytes and more
SampleStreams ==
    { <<"\t", "a">> \o Sep \o <<"a", "\t", "\r", "\n">>,
      <<" ", "a", " ">> \o Sep \o <<"a", " ", "\n">>,
      <<"a", "#">> \o Sep \o <<"a", " ", "a">>,
      <<"a">> \o Sep \o <<"a", LongRun, "\n">>,
      <<"a">> \o Sep \o <<LongRun, "\n">> \o <<"a">> \o Sep \o <<"a", "\n">>,
      <<"#", LongRun, "\n">> \o <<"a">> \o Sep \o <<"a", "\n">>,
      <<"a">> \o Sep \o <<"a", "\n">> \o <<LongRun>>,
      <<"a">> \o Sep \o <<"a", "\n">> \o <<LongRun, "a", "\n">>,
      <<LongRun, "\n">> }

InitParse ==
    /\ input \in ShortStreams \cup SpelledStreams \cup SampleStreams
    /\ scanned = 0
    /\ entries = <<>>
    /\ parseErr = FALSE
    /\ parsePC = "scan"
    /\ outcomes = <<>>
    /\ wrote = 0
    /\ warned = 0
    /\ workersFlag = defaultMaxWorkers
    /\ maxWorkers = defaultMaxWorkers
    /\ mainPC = "idle"
    /\ SchedIdle
    /\ PathIdle
    /\ SourceIdle
    /\ HashIdle
    /\ EnumIdle

NextParse == Scan \/ ParseReturn

SpecParse == InitParse /\ [][NextParse]_vars

(***************************************************************************)
(* What the properties of the manifest reader are stated with.             *)
(***************************************************************************)
RECURSIVE LinesFrom(_, _)
\* the lines of a stream from position k on, as bufio.ScanLines cuts them
LinesFrom(s, k) ==
    IF k > Len(s)
    THEN <<>>
    ELSE LET nl == NextNewline(s, k)
         IN  IF nl = 0
             THEN <<SubSeq(s, k, Len(s))>>
             ELSE <<SubSeq(s, k, nl - 1)>> \o LinesFrom(s, nl + 1)

\* a line of the sha256sum format: not blank, not a comment, with the
\* two-space separator between digest and path
WellFormed(line) ==
    LET t == TrimSpace(line)
    IN  /\ t # <<>>
        /\ t[1] # "#"
        /\ Index(t, Sep) > 0

HexChars == {"0", "1", "2", "3", "4", "5", "6", "7", "8", "9",
             "A", "B", "C", "D", "E", "F", "a", "b", "c", "d", "e", "f"}

\* the length of the digest strings GetSHA256 returns in this model
\* (2 * sha256.Size = 64 in the program)
DigestHexLen == Len(SprintfX(CHOOSE d \in FileDigests : TRUE))

IsDigestString(h) ==
    /\ Len(h) = DigestHexLen
    /\ \A k \in 1..Len(h) : h[k] \in HexChars

NoEdgeSpace(s) ==
    /\ s # <<>>
    /\ ~IsSpace(s[1])
    /\ ~IsSpace(s[Len(s)])

\* C12: when ParseHashFile has returned, it has returned no error and
\* exactly as many entries as the stream has well-formed lines, whatever
\* blank, comment or malformed lines stand between them.
C12_OneEntryPerWellFormedLine ==
    parsePC = "done" =>
        /\ ~parseErr
        /\ LET lines == LinesFrom(input, 1)
           IN  Len(entries) =
                   Cardinality({k \in 1..Len(lines) : WellFormed(lines[k])})

\* C13: a stream with a line of 65536 bytes or more is parsed without an
\* error, like any other stream.
C13_NoMaximumLineLength ==
    LET lines == LinesFrom(input, 1)
    IN  (/\ parsePC = "done"
         /\ \E k \in 1..Len(lines) : Size(lines[k]) >= MaxScanTokenSize)
            => ~parseErr

\* C14: every entry ParseHashFile holds has a digest that is a hexadecimal
\* string of the length of the digest algorithm's output.
C14_DigestIsFixedLengthHex ==
    \A k \in 1..Len(entries) : IsDigestString(entries[k].Hash)

\* C15: every entry ParseHashFile holds has a non-empty digest and a
\* non-empty path, both without leading or trailing whitespace.
C15_FieldsNonEmptyAndTrimmed ==
    \A k \in 1..Len(entries) :
        /\ NoEdgeSpace(entries[k].Hash)
        /\ NoEdgeSpace(entries[k].FilePath)

\* a line with leading whitespace, three separator spaces and a trailing
\* space has been parsed to an entry
C15_Witness ==
    /\ parsePC = "done"
    /\ input = <<" ", "a", " ", " ", " ", "a", " ", "\n">>
    /\ entries = << [Hash |-> <<"A">>, FilePath |-> <<"a">>] >>

\* C16: every stored digest is in upper case, and a manifest line that
\* spells the computed digest of its file in lower, upper or mixed case
\* gives an entry that the check worker classifies as a match.
C16_CaseInsensitiveMatch ==
    /\ \A k \in 1..Len(entries) : entries[k].Hash = ToUpper(entries[k].Hash)
    /\ \A d \in FileDigests : \A h \in CaseSpellings(SprintfX(d)) :
          (parsePC = "done" /\ input = h \o Sep \o <<"a", "\n">>) =>
              /\ Len(entries) = 1
              /\ CheckResultOf(1, entries[1],
                               [hash |-> SprintfX(d), err |-> FALSE]).IsValid

\* the mixed-case spelling "aB" of the digest AB has been parsed
C16_Witness ==
    /\ parsePC = "done"
    /\ input = <<"a", "B">> \o Sep \o <<"a", "\n">>
    /\ Len(entries) = 1
    /\ entries[1].Hash = <<"A", "B">>

(***************************************************************************)
(* Calculate mode writes a manifest (main.go:326-338) and check mode       *)
(* reads it back (main.go:121, hasher.go:88-127).                          *)
(***************************************************************************)
PathNameChars == {" ", "#", "a"}

\* the successful CalcResults of a run, in the order they are received
OutcomeLists ==
    SeqsUpTo({[Hash |-> SprintfX(d), FilePath |-> p] :
                 d \in FileDigests, p \in SeqsUpTo(PathNameChars, MaxPathLen)},
             MaxOutcomes)

\* a writer that puts one space between digest and path
WriteOutcomeOneSpace ==
    /\ parsePC = "write"
    /\ wrote < Len(outcomes)
    /\ LET result == outcomes[wrote + 1]
       IN  input' = input \o result.Hash \o <<" ">> \o result.FilePath
                          \o <<"\n">>
    /\ wrote' = wrote + 1
    /\ UNCHANGED <<scanned, entries, parseErr, parsePC, outcomes, warned>>
    /\ UNCHANGED <<fanOutVars, sourceVars, hashVars, enumVars>>

\* main.go:337: fmt.Fprintf(outputWriter, "%s  %s\n", result.Hash,
\* result.FilePath) for the next successful outcome
WriteOutcome ==
    /\ parsePC = "write"
    /\ wrote < Len(outcomes)
    /\ LET result == outcomes[wrote + 1]
       IN  input' = input \o result.Hash \o <<" ", " ">> \o result.FilePath
                          \o <<"\n">>
    /\ wrote' = wrote + 1
    /\ UNCHANGED <<scanned, entries, parseErr, parsePC, outcomes, warned>>
    /\ UNCHANGED <<fanOutVars, sourceVars, hashVars, enumVars>>

\* main.go:318, 104-121: the output file is closed, and a check-mode run
\* opens it and calls ParseHashFile on it
ReadBack ==
    /\ parsePC = "write"
    /\ wrote = Len(outcomes)
    /\ parsePC' = "scan"
    /\ UNCHANGED <<input, scanned, entries, parseErr, outcomes, wrote, warned>>
    /\ UNCHANGED <<fanOutVars, sourceVars, hashVars, enumVars>>

InitRoundTrip ==
    /\ outcomes \in OutcomeLists
    /\ wrote = 0
    /\ warned = 0
    /\ input = <<>>
    /\ scanned = 0
    /\ entries = <<>>
    /\ parseErr = FALSE
    /\ parsePC = "write"
    /\ workersFlag = defaultMaxWorkers
    /\ maxWorkers = defaultMaxWorkers
    /\ mainPC = "idle"
    /\ SchedIdle
    /\ PathIdle
    /\ SourceIdle
    /\ HashIdle
    /\ EnumIdle

NextRoundTrip == WriteOutcome \/ ReadBack \/ Scan \/ ParseReturn

SpecRoundTrip == InitRoundTrip /\ [][NextRoundTrip]_vars

\* C17: when the manifest that calculate mode wrote for its successful
\* outcomes has been parsed, the entries are the outcomes: the same
\* digests and the same paths in the same order, whatever the paths.
C17_RoundTripGivesOutcomes ==
    (parsePC = "done" /\ wrote = Len(outcomes) /\ wrote > 0) =>
        /\ ~parseErr
        /\ Len(entries) = Len(outcomes)
        /\ \A k \in 1..Len(outcomes) :
              /\ entries[k].Hash = outcomes[k].Hash
              /\ entries[k].FilePath = outcomes[k].FilePath

(***************************************************************************)
(* GetSHA256 with its two pools, hasher.go:22-35 and 54-83.  A pooled      *)
(* object is free (not allocated: the pool's New makes it), in the pool,   *)
(* or held by the call that took it.                                       *)
(***************************************************************************)
Callers == {1, 2}

Hashers == {1, 2}

Buffers == {1, 2}

\* the contents of the files hashed here, as sequences of chunks
HashFiles == {<<>>, <<11>>, <<10, 11>>}

\* sha256: an injective function of the bytes written since New or Reset
\* (the length stands first, as in the padding of SHA-256)
Sum256(w) == <<Len(w)>> \o w

Free == <<"free">>

InPool == <<"pool">>

HeldBy(c) == <<"held", c>>

NoCall ==
    [pc |-> "idle", file |-> <<>>, pos |-> 0, h |-> 0, b |-> 0,
     ret |-> NoReturn, ok |-> FALSE, opens |-> 0, gets |-> 0,
     residue |-> <<>>, fd |-> FALSE]

\* an open that is tried a second time when it fails
OpenWithRetry(c) ==
    /\ call[c].pc \in {"idle", "returned"}
    /\ calls < MaxCalls
    /\ calls' = calls + 1
    /\ \E f \in HashFiles : \E first \in BOOLEAN, second \in BOOLEAN :
          call' = [call EXCEPT ![c] =
              IF first \/ second
              THEN [NoCall EXCEPT !.pc = "opened", !.file = f, !.ok = TRUE,
                                  !.fd = TRUE,
                                  !.opens = IF first THEN 1 ELSE 2]
              ELSE [NoCall EXCEPT !.pc = "returned", !.opens = 2,
                                  !.ret = [hash |-> <<>>, err |-> TRUE]]]
    /\ UNCHANGED <<hstate, hwhere, bwhere>>
    /\ UNCHANGED <<fanOutVars, sourceVars, parseVars, enumVars>>

\* hasher.go:54-59: a call begins; os.Open succeeds, or fails and the call
\* returns "" and the error
Open(c) ==
    /\ call[c].pc \in {"idle", "returned"}
    /\ calls < MaxCalls
    /\ calls' = calls + 1
    /\ \E f \in HashFiles : \E ok \in BOOLEAN :
          call' = [call EXCEPT ![c] =
              IF ok
              THEN [NoCall EXCEPT !.pc = "opened", !.file = f, !.ok = TRUE,
                                  !.fd = TRUE,
                                  !.opens = 1]
              ELSE [NoCall EXCEPT !.pc = "returned", !.opens = 1,
                                  !.ret = [hash |-> <<>>, err |-> TRUE]]]
    /\ UNCHANGED <<hstate, hwhere, bwhere>>
    /\ UNCHANGED <<fanOutVars, sourceVars, parseVars, enumVars>>

\* the hash-state taken from the pool and used as it is
GetHasherNoReset(c) ==
    /\ call[c].pc = "opened"
    /\ \E h \in Hashers :
          /\ hwhere[h] \in {Free, InPool}
          /\ hwhere' = [hwhere EXCEPT ![h] = HeldBy(c)]
          /\ call' = [call EXCEPT ![c].pc = "reset", ![c].h = h,
                                  ![c].gets = @ + 1,
                                  ![c].residue = hstate[h]]
    /\ UNCHANGED <<hstate, bwhere, calls>>
    /\ UNCHANGED <<fanOutVars, sourceVars, parseVars, enumVars>>

\* hasher.go:62-64: sha256HashPool.Get() gives a pooled hash-state or a
\* new one, and shaWriter.Reset() empties it
GetHasher(c) ==
    /\ call[c].pc = "opened"
    /\ \E h \in Hashers :
          /\ hwhere[h] \in {Free, InPool}
          /\ hwhere' = [hwhere EXCEPT ![h] = HeldBy(c)]
          /\ hstate' = [hstate EXCEPT ![h] = <<>>]
          /\ call' = [call EXCEPT ![c].pc = "reset", ![c].h = h,
                                  ![c].gets = @ + 1,
                                  ![c].residue = hstate[h]]
    /\ UNCHANGED <<bwhere, calls>>
    /\ UNCHANGED <<fanOutVars, sourceVars, parseVars, enumVars>>

\* a pool whose Get hands out a buffer and keeps it in the pool
GetBufferLeftInPool(c) ==
    /\ call[c].pc = "reset"
    /\ \E b \in Buffers :
          /\ bwhere[b] \in {Free, InPool}
          /\ call' = [call EXCEPT ![c].pc = "copy", ![c].b = b,
                                  ![c].gets = @ + 1]
    /\ UNCHANGED <<hstate, hwhere, bwhere, calls>>
    /\ UNCHANGED <<fanOutVars, sourceVars, parseVars, enumVars>>

\* hasher.go:69-72: bufferPool.Get()
GetBuffer(c) ==
    /\ call[c].pc = "reset"
    /\ \E b \in Buffers :
          /\ bwhere[b] \in {Free, InPool}
          /\ bwhere' = [bwhere EXCEPT ![b] = HeldBy(c)]
          /\ call' = [call EXCEPT ![c].pc = "copy", ![c].b = b,
                                  ![c].gets = @ + 1]
    /\ UNCHANGED <<hstate, hwhere, calls>>
    /\ UNCHANGED <<fanOutVars, sourceVars, parseVars, enumVars>>

\* hasher.go:75: io.CopyBuffer writes the next chunk of the file
CopyChunk(c) ==
    /\ call[c].pc = "copy"
    /\ call[c].pos < Len(call[c].file)
    /\ hstate' = [hstate EXCEPT ![call[c].h] =
                      @ \o <<call[c].file[call[c].pos + 1]>>]
    /\ call' = [call EXCEPT ![c].pos = @ + 1]
    /\ UNCHANGED <<hwhere, bwhere, calls>>
    /\ UNCHANGED <<fanOutVars, sourceVars, parseVars, enumVars>>

\* a read failure that returns at once, with no deferred call
ReadFailsNoCleanup(c) ==
    /\ call[c].pc = "copy"
    /\ call' = [call EXCEPT ![c].pc = "returned",
                            ![c].ret = [hash |-> <<>>, err |-> TRUE]]
    /\ UNCHANGED <<hstate, hwhere, bwhere, calls>>
    /\ UNCHANGED <<fanOutVars, sourceVars, parseVars, enumVars>>

\* hasher.go:75-77: a read fails, the call is to return "" and the error
ReadFails(c) ==
    /\ call[c].pc = "copy"
    /\ call' = [call EXCEPT ![c].pc = "defer_buf",
                            ![c].ret = [hash |-> <<>>, err |-> TRUE]]
    /\ UNCHANGED <<hstate, hwhere, bwhere, calls>>
    /\ UNCHANGED <<fanOutVars, sourceVars, parseVars, enumVars>>

\* hasher.go:80-82: the file is at its end; shaWriter.Sum(nil) and
\* fmt.Sprintf("%X", sum)
Sum(c) ==
    /\ call[c].pc = "copy"
    /\ call[c].pos = Len(call[c].file)
    /\ call' = [call EXCEPT ![c].pc = "defer_buf",
                            ![c].ret = [hash |->
                                            SprintfX(Sum256(hstate[call[c].h])),
                                        err |-> FALSE]]
    /\ UNCHANGED <<hstate, hwhere, bwhere, calls>>
    /\ UNCHANGED <<fanOutVars, sourceVars, parseVars, enumVars>>

\* hasher.go:72: deferred bufferPool.Put(buf)
PutBuffer(c) ==
    /\ call[c].pc = "defer_buf"
    /\ bwhere' = [bwhere EXCEPT ![call[c].b] = InPool]
    /\ call' = [call EXCEPT ![c].pc = "defer_hash", ![c].b = 0]
    /\ UNCHANGED <<hstate, hwhere, calls>>
    /\ UNCHANGED <<fanOutVars, sourceVars, parseVars, enumVars>>

\* hasher.go:66: deferred sha256HashPool.Put(shaWriter), the state as it is
PutHasher(c) ==
    /\ call[c].pc = "defer_hash"
    /\ hwhere' = [hwhere EXCEPT ![call[c].h] = InPool]
    /\ call' = [call EXCEPT ![c].pc = "defer_close", ![c].h = 0]
    /\ UNCHANGED <<hstate, bwhere, calls>>
    /\ UNCHANGED <<fanOutVars, sourceVars, parseVars, enumVars>>

\* hasher.go:59: deferred f.Close(), and the call returns
Close(c) ==
    /\ call[c].pc = "defer_close"
    /\ call' = [call EXCEPT ![c].pc = "returned", ![c].fd = FALSE]
    /\ UNCHANGED <<hstate, hwhere, bwhere, calls>>
    /\ UNCHANGED <<fanOutVars, sourceVars, parseVars, enumVars>>

\* sync.Pool may drop a pooled hash-state at any time
DropHasher ==
    /\ \E h \in Hashers :
          /\ hwhere[h] = InPool
          /\ hwhere' = [hwhere EXCEPT ![h] = Free]
          /\ hstate' = [hstate EXCEPT ![h] = <<>>]
    /\ UNCHANGED <<bwhere, call, calls>>
    /\ UNCHANGED <<fanOutVars, sourceVars, parseVars, enumVars>>

\* sync.Pool may drop a pooled buffer at any time
DropBuffer ==
    /\ \E b \in Buffers :
          /\ bwhere[b] = InPool
          /\ bwhere' = [bwhere EXCEPT ![b] = Free]
    /\ UNCHANGED <<hstate, hwhere, call, calls>>
    /\ UNCHANGED <<fanOutVars, sourceVars, parseVars, enumVars>>

InitHash ==
    /\ hstate = [h \in Hashers |-> <<>>]
    /\ hwhere = [h \in Hashers |-> Free]
    /\ bwhere = [b \in Buffers |-> Free]
    /\ call = [c \in Callers |-> NoCall]
    /\ calls = 0
    /\ workersFlag = defaultMaxWorkers
    /\ maxWorkers = defaultMaxWorkers
    /\ mainPC = "idle"
    /\ SchedIdle
    /\ PathIdle
    /\ SourceIdle
    /\ ParseIdle
    /\ EnumIdle

CallStep(c) ==
    \/ Open(c)
    \/ GetHasher(c)
    \/ GetBuffer(c)
    \/ CopyChunk(c)
    \/ ReadFails(c)
    \/ Sum(c)
    \/ PutBuffer(c)
    \/ PutHasher(c)
    \/ Close(c)

NextHash == (\E c \in Callers : CallStep(c)) \/ DropHasher \/ DropBuffer

SpecHash == InitHash /\ [][NextHash]_vars

\* C18: the digest a call returns is the digest of the content of its
\* file, whatever the pooled hash-state held when the call took it.
C18_DigestIndependentOfPoolHistory ==
    \A c \in Callers :
        (call[c].pc = "returned" /\ ~call[c].ret.err) =>
            call[c].ret.hash = SprintfX(Sum256(call[c].file))

\* a call that took the hash-state an earlier call had fed with the first
\* chunk of a file before its read failed has returned the digest of its
\* own file
C18_Witness ==
    \E c \in Callers :
        /\ call[c].pc = "returned"
        /\ ~call[c].ret.err
        /\ call[c].residue = <<10>>
        /\ call[c].file = <<11>>
        /\ call[c].ret.hash = SprintfX(Sum256(<<11>>))

\* C19: a call whose open failed has returned the error and the empty
\* digest string after one open attempt, and has taken nothing from the
\* two pools.
C19_OpenFailureReturnsAtOnce ==
    \A c \in Callers :
        (call[c].pc = "returned" /\ ~call[c].ok) =>
            /\ call[c].ret.err
            /\ call[c].ret.hash = <<>>
            /\ call[c].opens = 1
            /\ call[c].gets = 0
            /\ \A h \in Hashers : hwhere[h] # HeldBy(c)
            /\ \A b \in Buffers : bwhere[b] # HeldBy(c)

\* an open has failed while a hash-state and a buffer were in the pools
C19_Witness ==
    \E c \in Callers :
        /\ call[c].pc = "returned"
        /\ ~call[c].ok
        /\ call[c].ret = [hash |-> <<>>, err |-> TRUE]
        /\ \E h \in Hashers : hwhere[h] = InPool
        /\ \E b \in Buffers : bwhere[b] = InPool

(***************************************************************************)
(* Calculate mode with arguments that os.Stat cannot access,               *)
(* main.go:244-276.                                                        *)
(***************************************************************************)
\* a calculate-mode run: tasks are the files found, skipped the number of
\* arguments that main.go:246-249 logged and left out
InitCalc ==
    /\ workersFlag \in FanOutFlags
    /\ maxWorkers = workersFlag
    /\ mainPC = "flags"
    /\ checkMode = FALSE
    /\ tasks \in TaskLists(checkMode)
    /\ unitPC = [i \in 1..Len(tasks) |-> "none"]
    /\ ret = [i \in 1..Len(tasks) |-> NoReturn]
    /\ semaphore = 0
    /\ resultChan = <<>>
    /\ chanClosed = FALSE
    /\ wg = 0
    /\ closerPC = "none"
    /\ numValidHash = 0
    /\ numInvalidHash = 0
    /\ hasFailure = FALSE
    /\ errorCount = 0
    /\ written = [i \in 1..Len(tasks) |-> 0]
    /\ printed = [i \in 1..Len(tasks) |-> 0]
    /\ emitted = [i \in 1..Len(tasks) |-> 0]
    /\ consumed = 0
    /\ summaryPrinted = FALSE
    /\ exitCode = -1
    /\ panicked = FALSE
    /\ skipped \in 0..MaxSkipped
    /\ PathIdle
    /\ args \in CalcArgLists(tasks, skipped)
    /\ hashFileReader = <<"none">>
    /\ srcPC = "idle"
    /\ ParseIdle
    /\ HashIdle

\* the steps of main() in calculate mode
MainStepCalc ==
    \/ NormalizeWorkers
    \/ EnterMode
    \/ \E i \in Units : Launch(i)
    \/ StartCloser
    \/ OpenOutput
    \/ ReceiveCalc
    \/ LoopEnd
    \/ PrintSummary
    \/ Exit

NextCalc ==
    \/ MainStepCalc
    \/ CloseChan
    \/ \E i \in 1..MaxTasks : UnitStep(i)

SpecCalc == InitCalc /\ [][NextCalc]_vars

\* C20: a calculate-mode run in which an argument could not be accessed
\* or a file could not be hashed ends with a non-zero exit status.
C20_AnyErrorExitsNonZero ==
    (/\ ~checkMode
     /\ mainPC = "exited"
     /\ \/ skipped > 0
        \/ \E i \in Units : Hashed(i) /\ ret[i].err)
        => exitCode # 0

(***************************************************************************)
(* Properties of the fan-out and of the aggregation, continued.            *)
(***************************************************************************)
\* C21: the result channel is closed only after every unit has sent its
\* outcome and finished: no unit sends on the closed channel (no panic),
\* and whenever the channel is closed every unit is done, has emitted its
\* one outcome, and the WaitGroup counter is zero.
C21_ClosedOnlyAfterAllSent ==
    /\ ~panicked
    /\ chanClosed =>
          /\ wg = 0
          /\ \A i \in Units : unitPC[i] = "done" /\ emitted[i] = 1

\* the aggregator stands at its loop with the channel closed and outcomes
\* of a run with more tasks than slots still buffered
C21_Witness ==
    /\ chanClosed
    /\ mainPC = "collect"
    /\ N > maxWorkers
    /\ Len(resultChan) >= 2
    /\ \E i \in Units : ret[i].err

\* C22: the tokens in the semaphore are those of the units that hold a
\* slot; a unit's release takes exactly one token out, whether GetSHA256
\* failed or not; when all units have finished no slot is held.
C22_SlotReleasedOnEveryPath ==
    /\ [](semaphore = Cardinality({i \in Units : Holding(i)}))
    /\ []((\A i \in Units : unitPC[i] = "done") => semaphore = 0)
    /\ [][\A i \in Units :
             (unitPC[i] = "sent" /\ unitPC'[i] = "released")
                => semaphore' = semaphore - 1]_vars

\* a calculate-mode run with more files than slots, failed and successful
\* ones, has finished with no slot held
C22_Witness ==
    /\ ~checkMode
    /\ N > maxWorkers
    /\ \A i \in Units : unitPC[i] = "done"
    /\ semaphore = 0
    /\ \E i \in Units : ret[i].err
    /\ \E i \in Units : ~ret[i].err

\* C23 as stated: a unit emits its outcome after it has released its
\* slot: a unit that has emitted holds no slot.
C23_EmittedAfterRelease ==
    \A i \in Units : emitted[i] = 1 => ~Holding(i)

\* C23 amended: each unit acquires a slot, computes the digest, emits its
\* outcome and then releases the slot: the digest is computed and the
\* outcome is emitted while the slot is held, the emission leaves the
\* semaphore as it is, and a unit past its release has emitted.
C23_EmittedBeforeRelease ==
    /\ [](\A i \in Units :
             unitPC[i] \in {"released", "done"} => emitted[i] = 1)
    /\ [][\A i \in Units :
             /\ ret'[i] # ret[i] => (Holding(i) /\ Holding(i)')
             /\ emitted'[i] # emitted[i] =>
                   /\ Holding(i)
                   /\ Hashed(i)
                   /\ Holding(i)'
                   /\ semaphore' = semaphore]_vars

\* a unit has emitted its outcome and still holds the only slot, while
\* another unit waits for it
C23_Witness ==
    /\ maxWorkers = 1
    /\ semaphore = 1
    /\ \E i \in Units : unitPC[i] = "sent" /\ emitted[i] = 1
    /\ \E i \in Units : unitPC[i] = "start"

\* C24: the result channel (capacity N) never holds more than N outcomes,
\* and whenever a unit stands at its send there is room in the channel, so
\* the send does not block, whether the aggregator consumes or not.
C24_SendNeverBlocks ==
    /\ Len(resultChan) <= N
    /\ \A i \in Units :
          (Alive /\ unitPC[i] = "hashed") =>
              /\ Len(resultChan) < N
              /\ consumed + Len(resultChan) < N

\* calculate mode: all outcomes of a run with more files than slots are in
\* the channel and every slot is released while main has not yet opened
\* the output, so has not started to consume
C24_Witness ==
    /\ ~checkMode
    /\ mainPC = "output"
    /\ N > maxWorkers
    /\ Len(resultChan) = N
    /\ consumed = 0
    /\ semaphore = 0

(***************************************************************************)
(* One of the schedules the Go scheduler may choose among the goroutines   *)
(* of main.go:138-187 and 291-301: a goroutine gets its slot only when     *)
(* every goroutine started after it has sent its outcome.                  *)
(***************************************************************************)
ReverseOrder ==
    \A i \in Units :
        (unitPC[i] = "start" /\ unitPC'[i] = "acquired") =>
            \A j \in Units : j > i => emitted[j] = 1

NextReversed == Next /\ ReverseOrder

\* the runs of Spec under that schedule, none of them stopping while a
\* step can be taken
SpecReversed == Init /\ [][NextReversed]_vars /\ WF_vars(NextReversed)

\* the aggregator is at its first receive and the outcome it will get is
\* that of the last task of the input list
FirstReceivedIsLast ==
    /\ mainPC = "collect"
    /\ consumed = 0
    /\ resultChan # <<>>
    /\ Head(resultChan).FilePath = N

\* C25: for every worker limit (1 included) and every N >= 2 there is a
\* run in which the aggregator receives the outcomes in another order than
\* the input order: under the schedule above the first outcome received is
\* the last task's (unless log.Fatalf on the output file ends the run).
C25_OrderNotInputOrder ==
    (N >= 2) => <>(FirstReceivedIsLast \/ OutputFailed)

\* with one slot only, the last of three tasks is the first to be received
C25_Witness ==
    /\ FirstReceivedIsLast
    /\ maxWorkers = 1
    /\ N = 3
    /\ unitPC[1] = "start"

\* C26: in check mode hasFailure is true exactly when numInvalidHash > 0
\* and the two counters add up to the outcomes consumed; the counters and
\* the flag change only in a step of the consuming loop, which takes one
\* outcome from the channel and increments exactly one counter by one.
C26_CountersOfTheSingleConsumer ==
    /\ [](checkMode =>
             /\ hasFailure <=> numInvalidHash > 0
             /\ numValidHash + numInvalidHash = consumed)
    /\ [][checkMode =>
             /\ <<numValidHash, numInvalidHash, hasFailure>>'
                    # <<numValidHash, numInvalidHash, hasFailure>>
                  => /\ mainPC = "collect"
                     /\ resultChan # <<>>
                     /\ resultChan' = Tail(resultChan)
                     /\ unitPC' = unitPC
             /\ consumed' # consumed
                  => /\ consumed' = consumed + 1
                     /\ \/ /\ numValidHash' = numValidHash + 1
                           /\ numInvalidHash' = numInvalidHash
                           /\ Head(resultChan).IsValid
                        \/ /\ numInvalidHash' = numInvalidHash + 1
                           /\ numValidHash' = numValidHash
                           /\ ~Head(resultChan).IsValid]_vars

\* in the middle of the aggregation: a valid and an invalid outcome are
\* counted, another one is waiting in the channel
C26_Witness ==
    /\ checkMode
    /\ mainPC = "collect"
    /\ numValidHash = 1
    /\ numInvalidHash = 1
    /\ hasFailure
    /\ Len(resultChan) = 1

\* C27: in check mode an outcome carries a message exactly when it is not
\* a match, and the message names the path of its manifest entry; a
\* message is printed at most once per entry and only for an entry that is
\* not a match; when the loop has ended one message has been printed for
\* every mismatch and every error, and none for a match.
C27_EveryFailureSurfacedOnce ==
    checkMode =>
        /\ \A k \in 1..Len(resultChan) :
              LET r == resultChan[k]
              IN  /\ r.Message # <<>> <=> Outcome(r.FilePath) # "match"
                  /\ r.Message # <<>> <=> ~r.IsValid
                  /\ r.Message # <<>> => r.Message[2] = r.FilePath
        /\ \A i \in Units :
              /\ printed[i] <= 1
              /\ printed[i] = 1 => (Hashed(i) /\ Outcome(i) # "match")
        /\ LoopEnded =>
              \A i \in Units :
                  printed[i] = IF Outcome(i) = "match" THEN 0 ELSE 1

\* the loop has ended on a manifest with a match, a mismatch and an
\* unreadable file: two messages printed
C27_Witness ==
    /\ checkMode
    /\ LoopEnded
    /\ N = 3
    /\ Outcome(1) = "error" /\ printed[1] = 1
    /\ Outcome(2) = "match" /\ printed[2] = 0
    /\ Outcome(3) = "mismatch" /\ printed[3] = 1

\* C28: in calculate mode a line is written at most once per file and
\* only for a file whose digest was computed; when the loop has ended the
\* lines written are those of the successful outcomes, errorCount is the
\* number of failed ones, and together they are N; a run ends with a
\* non-zero status exactly when errorCount > 0 (a run that the usage exit
\* ends for want of arguments, or log.Fatalf at the creation of the output
\* file, has no aggregation).
C28_LinesAndErrorsAddUpToN ==
    ~checkMode =>
        /\ \A i \in Units :
              /\ written[i] <= 1
              /\ written[i] = 1 => (Hashed(i) /\ ~ret[i].err)
        /\ LoopEnded =>
              /\ \A i \in Units : written[i] = IF ret[i].err THEN 0 ELSE 1
              /\ errorCount = Cardinality({i \in Units : ret[i].err})
              /\ Cardinality({i \in Units : written[i] = 1}) + errorCount = N
        /\ (mainPC = "exited" /\ ~OutputFailed /\ Len(args) > 0) =>
              /\ exitCode \in {0, 1}
              /\ exitCode # 0 <=> errorCount > 0

\* a calculate-mode run has written one line, counted two errors and
\* exited with status 1
C28_Witness ==
    /\ ~checkMode
    /\ mainPC = "exited"
    /\ summaryPrinted
    /\ exitCode = 1
    /\ N = 3
    /\ errorCount = 2
    /\ Cardinality({i \in Units : written[i] = 1}) = 1

(***************************************************************************)
(* Properties of GetSHA256 and its pools, continued.                       *)
(***************************************************************************)
\* the callers that are inside GetSHA256
InCall == {c \in Callers : call[c].pc \notin {"idle", "returned"}}

CheckedOutHashers == {h \in Hashers : \E c \in Callers : hwhere[h] = HeldBy(c)}

CheckedOutBuffers == {b \in Buffers : \E c \in Callers : bwhere[b] = HeldBy(c)}

OpenHandles == {c \in Callers : call[c].fd}

\* C29: a caller that is not inside GetSHA256 holds no hash-state, no
\* buffer and no open file, whatever way its last call ended; when no call
\* is in progress nothing is checked out and no file is open.
C29_EverythingGivenBack ==
    /\ \A c \in Callers \ InCall :
          /\ call[c].h = 0
          /\ call[c].b = 0
          /\ ~call[c].fd
          /\ \A h \in Hashers : hwhere[h] # HeldBy(c)
          /\ \A b \in Buffers : bwhere[b] # HeldBy(c)
    /\ InCall = {} =>
          /\ CheckedOutHashers = {}
          /\ CheckedOutBuffers = {}
          /\ OpenHandles = {}

\* all calls have returned, one of them after a read that failed when one
\* chunk had been written; the hash-state it fed is back in the pool
C29_Witness ==
    /\ InCall = {}
    /\ calls = MaxCalls
    /\ \E c \in Callers :
          /\ call[c].pc = "returned"
          /\ call[c].ok
          /\ call[c].ret.err
          /\ call[c].pos = 1
    /\ \E h \in Hashers : hwhere[h] = InPool /\ hstate[h] = <<10>>
    /\ \E b \in Buffers : bwhere[b] = InPool

\* C30: no hash-state and no buffer is held by two callers at a time: two
\* callers never have the same one, and what a caller has is marked as
\* held by that caller, so it is not in the pool for another Get.
C30_CheckoutsAreExclusive ==
    /\ \A c1 \in Callers : \A c2 \in Callers \ {c1} :
          /\ call[c1].h # 0 => call[c1].h # call[c2].h
          /\ call[c1].b # 0 => call[c1].b # call[c2].b
    /\ \A c \in Callers :
          /\ \A h \in Hashers : call[c].h = h <=> hwhere[h] = HeldBy(c)
          /\ \A b \in Buffers : call[c].b = b <=> bwhere[b] = HeldBy(c)

\* two calls copy at the same time, each with its own hash-state and
\* buffer, one of the hash-states taken from the pool with bytes in it
C30_Witness ==
    /\ \A c \in Callers : call[c].pc = "copy"
    /\ call[1].h # call[2].h
    /\ call[1].b # call[2].b
    /\ \E c \in Callers : call[c].residue # <<>>

(***************************************************************************)
(* Check mode from the call of ParseHashFile to the launch of the          *)
(* goroutines, main.go:120-140, with a manifest stream whose read can      *)
(* fail.                                                                   *)
(***************************************************************************)
\* hasher.go:96, 122-124: the reader returns an error (not io.EOF);
\* scanner.Scan() ends, scanner.Err() is that error, and ParseHashFile
\* returns nil and the wrapped error
ReadFailure ==
    /\ parsePC = "scan"
    /\ parseErr' = TRUE
    /\ entries' = <<>>
    /\ parsePC' = "done"
    /\ UNCHANGED <<input, scanned, outcomes, wrote, warned>>
    /\ UNCHANGED <<fanOutVars, sourceVars, hashVars, enumVars>>

\* a main that goes on with what ParseHashFile returned, error or not
HandleParseIgnoringError ==
    /\ Alive
    /\ mainPC = "parse"
    /\ parsePC = "done"
    /\ IF entries = <<>>
       THEN /\ exitCode' = 0
            /\ mainPC' = "exited"
            /\ UNCHANGED <<tasks, unitPC, ret, written, printed, emitted>>
       ELSE /\ tasks' = [k \in 1..Len(entries) |-> [Hash |-> entries[k].Hash]]
            /\ unitPC' = [k \in 1..Len(entries) |-> "none"]
            /\ ret' = [k \in 1..Len(entries) |-> NoReturn]
            /\ written' = [k \in 1..Len(entries) |-> 0]
            /\ printed' = [k \in 1..Len(entries) |-> 0]
            /\ emitted' = [k \in 1..Len(entries) |-> 0]
            /\ mainPC' = "launch"
            /\ UNCHANGED exitCode
    /\ UNCHANGED <<workersFlag, maxWorkers, checkMode, semaphore, resultChan,
                   chanClosed, wg, closerPC, numValidHash, numInvalidHash,
                   hasFailure, errorCount, consumed, summaryPrinted, panicked>>
    /\ UNCHANGED pathVars
    /\ UNCHANGED laterVars

\* main.go:121-135: log.Fatalf when ParseHashFile returned an error,
\* os.Exit(0) when there is no entry, else the entries are the tasks
HandleParse ==
    /\ Alive
    /\ mainPC = "parse"
    /\ parsePC = "done"
    /\ IF parseErr
       THEN /\ exitCode' = 1
            /\ mainPC' = "exited"
            /\ UNCHANGED <<tasks, unitPC, ret, written, printed, emitted>>
       ELSE IF entries = <<>>
       THEN /\ exitCode' = 0
            /\ mainPC' = "exited"
            /\ UNCHANGED <<tasks, unitPC, ret, written, printed, emitted>>
       ELSE /\ tasks' = [k \in 1..Len(entries) |-> [Hash |-> entries[k].Hash]]
            /\ unitPC' = [k \in 1..Len(entries) |-> "none"]
            /\ ret' = [k \in 1..Len(entries) |-> NoReturn]
            /\ written' = [k \in 1..Len(entries) |-> 0]
            /\ printed' = [k \in 1..Len(entries) |-> 0]
            /\ emitted' = [k \in 1..Len(entries) |-> 0]
            /\ mainPC' = "launch"
            /\ UNCHANGED exitCode
    /\ UNCHANGED <<workersFlag, maxWorkers, checkMode, semaphore, resultChan,
                   chanClosed, wg, closerPC, numValidHash, numInvalidHash,
                   hasFailure, errorCount, consumed, summaryPrinted, panicked>>
    /\ UNCHANGED pathVars
    /\ UNCHANGED laterVars

InitManifest ==
    /\ input \in ShortStreams \cup SpelledStreams \cup SampleStreams
    /\ scanned = 0
    /\ entries = <<>>
    /\ parseErr = FALSE
    /\ parsePC = "scan"
    /\ outcomes = <<>>
    /\ wrote = 0
    /\ warned = 0
    /\ workersFlag = defaultMaxWorkers
    /\ maxWorkers = defaultMaxWorkers
    /\ mainPC = "parse"
    /\ SchedIdle
    /\ PathIdle
    /\ SourceIdle
    /\ HashIdle
    /\ EnumIdle

NextManifest ==
    \/ Scan
    \/ ReadFailure
    \/ ParseReturn
    \/ HandleParse
    \/ \E i \in Units : Launch(i)

SpecManifest == InitManifest /\ [][NextManifest]_vars

\* C31: when ParseHashFile returns an error it returns no entry; main
\* then ends the process with status 1, and no goroutine has been or will
\* be launched: units are launched only after a parse without error.
C31_ReadFailureIsFatal ==
    /\ parseErr => entries = <<>>
    /\ (parseErr /\ mainPC # "parse") =>
          /\ mainPC = "exited"
          /\ exitCode = 1
    /\ parseErr =>
          /\ tasks = <<>>
          /\ wg = 0
          /\ unitPC = <<>>
    /\ wg > 0 => (parsePC = "done" /\ ~parseErr)

\* the read failed after a well-formed line had been scanned: the entry
\* is gone and the process has exited with status 1
C31_Witness ==
    /\ parseErr
    /\ input = <<"a", " ", " ", "a", "\n", "a">>
    /\ scanned = 5
    /\ entries = <<>>
    /\ mainPC = "exited"
    /\ exitCode = 1

(***************************************************************************)
(* A manifest is parsed, its entries are written as calculate mode writes  *)
(* its lines (main.go:337), and that text is parsed again.                 *)
(***************************************************************************)
\* the entries ParseHashFile returned become the outcomes to write, to a
\* new and empty output
Reserialize ==
    /\ parsePC = "done"
    /\ wrote = 0
    /\ input # <<>>
    /\ outcomes' = entries
    /\ input' = <<>>
    /\ scanned' = 0
    /\ entries' = <<>>
    /\ parseErr' = FALSE
    /\ parsePC' = "write"
    /\ UNCHANGED <<wrote, warned>>
    /\ UNCHANGED <<fanOutVars, sourceVars, hashVars, enumVars>>

MaxLines == 3

\* manifest lines: a plain entry, a path with a run of spaces, surrounding
\* and extra separator spaces, a comment holding a separator, a line with
\* no separator, an empty line, tabs around the fields, a mixed-case digest
\* before a carriage return
ManifestLines ==
    { <<"a">> \o Sep \o <<"a">>,
      <<"a", "b">> \o Sep \o <<"a">> \o Sep \o <<"a">>,
      <<" ", "a", " ">> \o Sep \o <<"a", " ">>,
      <<"#", "a">> \o Sep \o <<"a">>,
      <<"a", " ", "a">>,
      <<>>,
      <<"a", "#", "\t">> \o Sep \o <<"\t", "a", "\t", "a">>,
      <<"A", "b">> \o Sep \o <<"a", "\r">> }

RECURSIVE JoinLines(_)
\* the text of the given lines, each ended by a newline
JoinLines(ls) ==
    IF ls = <<>> THEN <<>> ELSE Head(ls) \o <<"\n">> \o JoinLines(Tail(ls))

\* every manifest of up to MaxLines of the lines above
LineStreams == {JoinLines(ls) : ls \in SeqsUpTo(ManifestLines, MaxLines)}

InitReparse ==
    /\ input \in ShortStreams \cup SpelledStreams \cup SampleStreams
                              \cup LineStreams
    /\ scanned = 0
    /\ entries = <<>>
    /\ parseErr = FALSE
    /\ parsePC = "scan"
    /\ outcomes = <<>>
    /\ wrote = 0
    /\ warned = 0
    /\ workersFlag = defaultMaxWorkers
    /\ maxWorkers = defaultMaxWorkers
    /\ mainPC = "idle"
    /\ SchedIdle
    /\ PathIdle
    /\ SourceIdle
    /\ HashIdle
    /\ EnumIdle

NextReparse == Scan \/ ParseReturn \/ Reserialize \/ WriteOutcome \/ ReadBack

SpecReparse == InitReparse /\ [][NextReparse]_vars

\* C32: when the text written from the entries of a first parse has been
\* parsed, the parse has returned no error and the same entries, in the
\* same order.
C32_ReparseIsLossless ==
    (parsePC = "done" /\ (wrote > 0 \/ input = <<>>)) =>
        /\ ~parseErr
        /\ entries = outcomes

\* two entries, one with a run of spaces in its path and one with a '#' in
\* its digest field and a tab in its path, have been written and parsed
\* again
C32_Witness ==
    /\ parsePC = "done"
    /\ wrote = 2
    /\ input = <<"A", "B">> \o Sep \o <<"a">> \o Sep \o <<"a", "\n">>
                \o <<"A", "#">> \o Sep \o <<"a", "\t", "a", "\n">>
    /\ entries = << [Hash |-> <<"A", "B">>,
                     FilePath |-> <<"a", " ", " ", "a">>],
                    [Hash |-> <<"A", "#">>,
                     FilePath |-> <<"a", "\t", "a">>] >>
    /\ outcomes = entries

\* whether a trimmed line is neither blank nor a comment and has two
\* consecutive spaces somewhere
HasTwoSpaceRun(line) ==
    LET t == TrimSpace(line)
    IN  /\ t # <<>>
        /\ t[1] # "#"
        /\ \E i \in 1..(Len(t) - 1) : t[i] = " " /\ t[i + 1] = " "

\* the position of the first of the first two consecutive spaces
FirstTwoSpaces(t) ==
    CHOOSE i \in 1..(Len(t) - 1) :
        /\ t[i] = " " /\ t[i + 1] = " "
        /\ \A j \in 1..(i - 1) : ~(t[j] = " " /\ t[j + 1] = " ")

\* C33: when ParseHashFile has returned without error, its entries are, in
\* order, those of the non-skipped lines that have a two-space run, lines
\* without one giving nothing; each entry's path is everything after the
\* first two-space run of its line, trimmed, and its digest everything
\* before it, trimmed and upper-cased.
C33_SplitAtFirstTwoSpaces ==
    (parsePC = "done" /\ ~parseErr) =>
        LET split == SelectSeq(LinesFrom(input, 1), HasTwoSpaceRun)
        IN  /\ Len(entries) = Len(split)
            /\ \A k \in 1..Len(split) :
                   LET t == TrimSpace(split[k])
                       i == FirstTwoSpaces(t)
                   IN  /\ entries[k].FilePath =
                               TrimSpace(SubSeq(t, i + 2, Len(t)))
                       /\ entries[k].Hash =
                               ToUpper(TrimSpace(SubSeq(t, 1, i - 1)))

\* a line without a two-space run, then a line whose path holds a run of
\* two spaces: one entry, with the whole path
C33_Witness ==
    /\ parsePC = "done"
    /\ wrote = 0
    /\ input = <<"a", " ", "a", "\n">>
                \o <<"a", "b">> \o Sep \o <<"a">> \o Sep \o <<"a", "\n">>
    /\ entries = << [Hash |-> <<"A", "B">>,
                     FilePath |-> <<"a", " ", " ", "a">>] >>

\* C34: each line ParseHashFile reads adds neither an entry nor a
\* malformed-line warning exactly when it is empty after trimming or its
\* first non-whitespace character is '#', a two-space separator in it or
\* not.
C34_SkipsBlankAndCommentLines ==
    [][(scanned' > scanned /\ ~parseErr') =>
          LET t == TrimSpace(SubSeq(input, scanned + 1, scanned'))
          IN  (entries' = entries /\ warned' = warned)
                  <=> (t = <<>> \/ t[1] = "#")]_vars

\* a comment line with a leading space and a two-space separator has been
\* read: no entry, no warning
C34_Witness ==
    /\ parsePC = "done"
    /\ input = <<" ", "#", " ", " ", "a", "\n">>
    /\ scanned = 6
    /\ entries = <<>>
    /\ warned = 0
    /\ ~parseErr

(***************************************************************************)
(* The checkHashForFiles command, cmd/checkHashForFiles/                   *)
(* checkHashForFiles.go: its own manifest reader, its own GetSHA256 and    *)
(* its own fan-out and count of valid and invalid hashes.                  *)
(***************************************************************************)
MaxEntryLines == 2

\* the variables this command never touches
idleVars == <<workersFlag, checkMode, hasFailure, errorCount, written,
              printed, emitted, panicked, pathVars, sourceVars, outcomes,
              wrote, hashVars, enumVars>>

contentVars == <<input, scanned, entries, parseErr, parsePC, warned>>

runVars == <<maxWorkers, tasks, mainPC, unitPC, ret, semaphore, resultChan,
             chanClosed, wg, closerPC, numValidHash, numInvalidHash,
             consumed, summaryPrinted, exitCode>>

\* one hexadecimal digit of fmt.Sprintf("%x", ...)
HexDigitLower(n) ==
    CASE n = 10 -> "a"
      [] n = 11 -> "b"
      [] n = 12 -> "c"
      [] n = 13 -> "d"
      [] n = 14 -> "e"
      [] n = 15 -> "f"
      [] OTHER -> HexDigitUpper(n)

\* checkHashForFiles.go:336: fmt.Sprintf("%x", sum)
SprintfLowerX(sum) == [k \in 1..Len(sum) |-> HexDigitLower(sum[k])]

\* the SHA-256 sum of the file the manifests name
ActualSum == CHOOSE d \in FileDigests : TRUE

\* what GetSHA256 of checkHashForFiles.go:301-337 can return
GetSHA256LowerReturns ==
    {[hash |-> SprintfLowerX(ActualSum), err |-> FALSE],
     [hash |-> <<>>, err |-> TRUE]}

\* checkHashForFiles.go:249-274: the entries one line adds, none or one
parseFileContentLine(line) ==
    LET parts == SplitN2(line, <<" ", " ">>)
    IN  IF Len(TrimSpace(line)) = 0
        THEN <<>>
        ELSE IF Len(parts) # 2
        THEN <<>>
        ELSE << [Hash |-> parts[1], FilePath |-> parts[2]] >>

\* checkHashForFiles.go:259-262: the warnings one line adds to the log
parseFileContentWarns(line) ==
    IF Len(TrimSpace(line)) = 0
    THEN 0
    ELSE IF Len(SplitN2(line, <<" ", " ">>)) # 2 THEN 1 ELSE 0

\* checkHashForFiles.go:247-275 and, for a line the scanner cannot hold,
\* 278-280: one scanner.Scan() with the loop body of parseFileContent
parseFileContentScan ==
    /\ parsePC = "scan"
    /\ scanned < Len(input)
    /\ LET nl == NextNewline(input, scanned + 1)
           stop == IF nl = 0 THEN Len(input) ELSE nl - 1
           raw == SubSeq(input, scanned + 1, stop)
       IN  IF Size(raw) >= MaxScanTokenSize
           THEN /\ parseErr' = TRUE
                /\ entries' = <<>>
                /\ parsePC' = "done"
                /\ UNCHANGED <<scanned, warned>>
           ELSE /\ entries' = entries \o parseFileContentLine(DropCR(raw))
                /\ warned' = warned + parseFileContentWarns(DropCR(raw))
                /\ scanned' = (IF nl = 0 THEN Len(input) ELSE nl)
                /\ UNCHANGED <<parseErr, parsePC>>
    /\ UNCHANGED input
    /\ UNCHANGED <<runVars, idleVars>>

\* checkHashForFiles.go:247, 278-282: the content is at its end
parseFileContentReturn ==
    /\ parsePC = "scan"
    /\ scanned = Len(input)
    /\ parsePC' = "done"
    /\ UNCHANGED <<input, scanned, entries, parseErr, warned>>
    /\ UNCHANGED <<runVars, idleVars>>

\* checkHashForFiles.go:392-405: log.Fatalf when parseFileContent returned
\* an error, main returns when there is no entry, else the channel and the
\* semaphore are made
MainHandleEntries ==
    /\ Alive
    /\ mainPC = "parse"
    /\ parsePC = "done"
    /\ IF parseErr
       THEN /\ exitCode' = 1
            /\ mainPC' = "exited"
            /\ UNCHANGED <<tasks, unitPC, ret>>
       ELSE IF Len(entries) = 0
       THEN /\ exitCode' = 0
            /\ mainPC' = "exited"
            /\ UNCHANGED <<tasks, unitPC, ret>>
       ELSE /\ tasks' = entries
            /\ unitPC' = [k \in 1..Len(entries) |-> "none"]
            /\ ret' = [k \in 1..Len(entries) |-> NoReturn]
            /\ mainPC' = "launch"
            /\ UNCHANGED exitCode
    /\ UNCHANGED <<maxWorkers, semaphore, resultChan, chanClosed, wg,
                   closerPC, numValidHash, numInvalidHash, consumed,
                   summaryPrinted>>
    /\ UNCHANGED <<contentVars, idleVars>>

\* checkHashForFiles.go:408-410: wg.Add(1) and the go statement for the
\* next entry
MainLaunchEntry(i) ==
    /\ Alive
    /\ mainPC = "launch"
    /\ unitPC[i] = "none"
    /\ \A j \in 1..(i - 1) : unitPC[j] # "none"
    /\ wg' = wg + 1
    /\ unitPC' = [unitPC EXCEPT ![i] = "start"]
    /\ UNCHANGED <<maxWorkers, tasks, mainPC, ret, semaphore, resultChan,
                   chanClosed, closerPC, numValidHash, numInvalidHash,
                   consumed, summaryPrinted, exitCode>>
    /\ UNCHANGED <<contentVars, idleVars>>

\* checkHashForFiles.go:429-435: after the launch loop the goroutine that
\* waits and closes is started and main enters its collecting loop
MainStartCloser ==
    /\ Alive
    /\ mainPC = "launch"
    /\ \A j \in Units : unitPC[j] # "none"
    /\ closerPC' = "waiting"
    /\ mainPC' = "collect"
    /\ UNCHANGED <<maxWorkers, tasks, unitPC, ret, semaphore, resultChan,
                   chanClosed, wg, numValidHash, numInvalidHash, consumed,
                   summaryPrinted, exitCode>>
    /\ UNCHANGED <<contentVars, idleVars>>

\* checkHashForFiles.go:413: semaphore <- struct{}{}
EntryAcquire(i) ==
    /\ Alive
    /\ unitPC[i] = "start"
    /\ semaphore < maxWorkers
    /\ semaphore' = semaphore + 1
    /\ unitPC' = [unitPC EXCEPT ![i] = "holding"]
    /\ UNCHANGED <<maxWorkers, tasks, mainPC, ret, resultChan, chanClosed,
                   wg, closerPC, numValidHash, numInvalidHash, consumed,
                   summaryPrinted, exitCode>>
    /\ UNCHANGED <<contentVars, idleVars>>

\* checkHashForFiles.go:417-424: the Result of an entry
EntryResultOf(entry, r) ==
    IF r.err
    THEN [IsValid |-> FALSE, Message |-> <<"Error getting hash">>]
    ELSE IF r.hash = entry.Hash
    THEN [IsValid |-> TRUE, Message |-> <<>>]
    ELSE [IsValid |-> FALSE, Message |-> <<"Hash values do not match">>]

\* checkHashForFiles.go:415-425: GetSHA256, the comparison and the send on
\* resultChan, whose capacity is the number of entries
EntryCheck(i) ==
    /\ Alive
    /\ unitPC[i] = "holding"
    /\ \E r \in GetSHA256LowerReturns :
           /\ ret' = [ret EXCEPT ![i] = r]
           /\ resultChan' = Append(resultChan, EntryResultOf(tasks[i], r))
    /\ unitPC' = [unitPC EXCEPT ![i] = "sent"]
    /\ UNCHANGED <<maxWorkers, tasks, mainPC, semaphore, chanClosed, wg,
                   closerPC, numValidHash, numInvalidHash, consumed,
                   summaryPrinted, exitCode>>
    /\ UNCHANGED <<contentVars, idleVars>>

\* checkHashForFiles.go:414: the deferred <-semaphore
EntryRelease(i) ==
    /\ Alive
    /\ unitPC[i] = "sent"
    /\ semaphore' = semaphore - 1
    /\ unitPC' = [unitPC EXCEPT ![i] = "released"]
    /\ UNCHANGED <<maxWorkers, tasks, mainPC, ret, resultChan, chanClosed,
                   wg, closerPC, numValidHash, numInvalidHash, consumed,
                   summaryPrinted, exitCode>>
    /\ UNCHANGED <<contentVars, idleVars>>

\* checkHashForFiles.go:411: the deferred wg.Done()
EntryDone(i) ==
    /\ Alive
    /\ unitPC[i] = "released"
    /\ wg' = wg - 1
    /\ unitPC' = [unitPC EXCEPT ![i] = "done"]
    /\ UNCHANGED <<maxWorkers, tasks, mainPC, ret, semaphore, resultChan,
                   chanClosed, closerPC, numValidHash, numInvalidHash,
                   consumed, summaryPrinted, exitCode>>
    /\ UNCHANGED <<contentVars, idleVars>>

\* checkHashForFiles.go:429-432: wg.Wait() returns, close(resultChan)
CloserClose ==
    /\ Alive
    /\ closerPC = "waiting"
    /\ wg = 0
    /\ chanClosed' = TRUE
    /\ closerPC' = "done"
    /\ UNCHANGED <<maxWorkers, tasks, mainPC, unitPC, ret, semaphore,
                   resultChan, wg, numValidHash, numInvalidHash, consumed,
                   summaryPrinted, exitCode>>
    /\ UNCHANGED <<contentVars, idleVars>>

\* checkHashForFiles.go:435-444: one Result is received and counted
MainCollect ==
    /\ Alive
    /\ mainPC = "collect"
    /\ resultChan # <<>>
    /\ LET result == Head(resultChan)
       IN  /\ numValidHash' = numValidHash + (IF result.IsValid THEN 1 ELSE 0)
           /\ numInvalidHash' =
                  numInvalidHash + (IF result.IsValid THEN 0 ELSE 1)
    /\ resultChan' = Tail(resultChan)
    /\ consumed' = consumed + 1
    /\ UNCHANGED <<maxWorkers, tasks, mainPC, unitPC, ret, semaphore,
                   chanClosed, wg, closerPC, summaryPrinted, exitCode>>
    /\ UNCHANGED <<contentVars, idleVars>>

\* checkHashForFiles.go:435, 446-448: the channel is closed and drained,
\* the counts are printed and main returns
MainReturn ==
    /\ Alive
    /\ mainPC = "collect"
    /\ resultChan = <<>>
    /\ chanClosed
    /\ summaryPrinted' = TRUE
    /\ exitCode' = 0
    /\ mainPC' = "exited"
    /\ UNCHANGED <<maxWorkers, tasks, unitPC, ret, semaphore, resultChan,
                   chanClosed, wg, closerPC, numValidHash, numInvalidHash,
                   consumed>>
    /\ UNCHANGED <<contentVars, idleVars>>

\* manifest lines naming file "a": the lower-case, upper-case and a
\* mixed-case spelling of its digest, another digest, a blank line, a
\* line without separator and a line of MaxScanTokenSize bytes
EntryLines ==
    { <<"a", "b">> \o Sep \o <<"a">>,
      <<LongRun>>,
      <<"A", "B">> \o Sep \o <<"a">>,
      <<"a", "B">> \o Sep \o <<"a">>,
      <<"b", "a">> \o Sep \o <<"a">>,
      <<>>,
      <<"a", " ", "a">> }

\* every manifest of up to MaxEntryLines of the lines above
EntryStreams == {JoinLines(ls) : ls \in SeqsUpTo(EntryLines, MaxEntryLines)}

InitCheckHashForFiles ==
    /\ input \in EntryStreams
    /\ scanned = 0
    /\ entries = <<>>
    /\ parseErr = FALSE
    /\ parsePC = "scan"
    /\ outcomes = <<>>
    /\ wrote = 0
    /\ warned = 0
    /\ workersFlag \in {1, 2}
    /\ maxWorkers = NormalizeMaxWorkers(workersFlag)
    /\ mainPC = "parse"
    /\ SchedIdle
    /\ PathIdle
    /\ SourceIdle
    /\ HashIdle
    /\ EnumIdle

NextCheckHashForFiles ==
    \/ parseFileContentScan
    \/ parseFileContentReturn
    \/ MainHandleEntries
    \/ \E i \in Units : MainLaunchEntry(i)
    \/ MainStartCloser
    \/ \E i \in Units : EntryAcquire(i)
    \/ \E i \in Units : EntryCheck(i)
    \/ \E i \in Units : EntryRelease(i)
    \/ \E i \in Units : EntryDone(i)
    \/ CloserClose
    \/ MainCollect
    \/ MainReturn

SpecCheckHashForFiles ==
    InitCheckHashForFiles /\ [][NextCheckHashForFiles]_vars

\* whether goDirHasher check mode counts entry i valid: ParseHashFile
\* stores the digest field trimmed and upper-cased, GetSHA256 returns the
\* upper-case hexadecimal of the file's sum
ValidInCheckMode(i) ==
    CheckResultOf(i, [Hash |-> ToUpper(TrimSpace(tasks[i].Hash))],
                  [hash |-> SprintfX(ActualSum), err |-> ret[i].err]).IsValid

\* C35: when checkHashForFiles has ended after checking entries, it has
\* counted valid exactly the entries goDirHasher check mode counts valid,
\* those whose digest is the file's in upper or lower case, and its exit
\* status is not zero if it counted an entry invalid.
C35_SameVerdictsAsCheckMode ==
    (mainPC = "exited" /\ tasks # <<>>) =>
        /\ numValidHash = Cardinality({i \in Units : ValidInCheckMode(i)})
        /\ (numInvalidHash > 0 => exitCode # 0)

====
